---- MODULE Spec2Model ----
(***************************************************************************)
(* Presence tracker: the upstream sync client with its circuit breaker     *)
(* (src/src/presence_tracker.py), the connection controller with its       *)
(* backoff bookkeeping (src/src/bluetooth_scanner.py) and the registration *)
(* part of the reconciliation loop (src/src/presence_tracker.py).          *)
(* Times are whole seconds.                                                *)
(***************************************************************************)
EXTENDS Integers, Sequences, FiniteSets, TLC

\* ------------------------------------------------------------------------
\* Program constants (defaults of the source)
\* ------------------------------------------------------------------------
POLLING_INTERVAL == 5
CONVEX_QUERY_TIMEOUT == 10
MAX_CONVEX_CONSECUTIVE_TIMEOUTS == 3
CONVEX_CIRCUIT_OPEN_SECONDS == 30

CONNECT_TIMEOUT_SECONDS == 10
CONNECT_TIMEOUT_BUFFER_SECONDS == 2
PROBE_CONNECT_TIMEOUT_SECONDS == 5
PROBE_CONNECT_TIMEOUT_BUFFER_SECONDS == 1
PROBE_BACKOFF_BASE_SECONDS == 5
PROBE_BACKOFF_MAX_SECONDS == 300
\* PROBE_BACKOFF_BASE_SECONDS is a float: base * (2 ** e) converts the int 2 ** e
\* to a double, and Python raises OverflowError once e reaches 1024
FLOAT_MAX_EXP == 1024
FIRST_SEEN_DEBOUNCE_SECONDS == 10
DISCOVERY_REFRESH_INTERVAL_SECONDS == 20
IN_RANGE_SCAN_SECONDS == 5
RSSI_FRESHNESS_SECONDS == 15
PRESENT_TTL_SECONDS == 120
FULL_PROBE_INTERVAL_SECONDS == 60
RECONNECT_COOLDOWN == 30
PROBE_TIME_BUDGET_SECONDS == 8

\* ------------------------------------------------------------------------
\* Bounds of the model
\* ------------------------------------------------------------------------
\* last clock value at which a store call or a sleep may still start
MaxClock == 75
\* longest modelled duration of a store call that completes in time
MaxCallDur == 1

\* last clock value at which a connect or disconnect may still start
MaxConnClock == 6
\* most connect_device / disconnect_device calls in one run
MaxConnCalls == 2
\* largest number of consecutive failures the backoff is evaluated on
MaxFailures == 1030

\* time.time() when the loop starts; the module's "never" is 0.0
WallStart == 1000
\* no cycle begins later than this long after the start
MaxLoopSpan == 15
\* no cycle of the store synchronisation begins later than this long after
\* the start
MaxSyncSpan == 5
\* the probe specification runs for this long
MaxProbeSpan == 40
\* the repeated-probe specification runs for this long
MaxStarveSpan == 400
\* the convergence specification runs for this long, and a mutation that
\* timed out at the client lands within MaxLateSpan of its start
MaxConvergeSpan == 30
MaxLateSpan == 5
\* the longest a probe's connect (and disconnect) takes
MaxAttemptDur == 8
\* the main-loop specification runs this many cycles
MaxRunCycles == 3
\* the longest one stage of a cycle takes in the main-loop specification
MaxStageDur == 1

Addr == {"a1", "a2"}

\* the addresses of the store synchronisation, in the order the store lists
\* its records
SyncOrder == <<"a1", "a2">>
SyncAddr == {SyncOrder[i] : i \in DOMAIN SyncOrder}

None == "None"
Value == "value"

Min(a, b) == IF a <= b THEN a ELSE b

VARIABLES
    clock,                        \* time.monotonic(), seconds
    \* upstream sync client
    convex_consecutive_timeouts,  \* _convex_consecutive_timeouts
    convex_circuit_open_until,    \* _convex_circuit_open_until
    call,                         \* the latest _submit_convex_call, as observed
    prevCall,                     \* the one before it, in short
    \* link layer (BlueZ), outside the program
    linkConnected,                \* addresses whose live Connected property is true
    lockHeld,                     \* _dbus_operation_lock is held by an abandoned worker
    \* connection controller
    failed_connection_attempts,   \* _failed_connection_attempts
    next_probe_allowed_at,        \* _next_probe_allowed_at
    conn,                         \* the latest connect/disconnect call, as observed
    pc,                           \* its position
    connCalls,                    \* calls started so far
    \* backoff arithmetic alone
    bk,                           \* one evaluation of the backoff expression
    \* upstream store, outside the program
    store,                        \* addresses that have a record
    \* reconciliation loop
    device_first_seen,            \* device_first_seen
    failed_registrations,         \* failed_registrations
    last_discovery_refresh_time,  \* last_discovery_refresh_time
    last_rssi_refresh_time,       \* bluetooth_scanner._last_rssi_refresh_time
    cycle_now,                    \* now = time.time() of the running cycle
    snapshot,                     \* the cycle's link snapshot
    devices,                      \* the cycle's get_known_devices(), by address
    lpc,                          \* position of the loop
    regConnected,                 \* this cycle's registerPendingDevice calls, connected path
    regInRange,                   \* this cycle's registerPendingDevice calls, in-range path
    firstObserved,                \* addresses whose first-seen time this cycle recorded
    earliestInRange,              \* per address, the first cycle that saw it in range
    removed,                      \* this cycle's remove_device calls by the stale-pairing cleanup
    \* upstream store, outside the program: the records' fields
    store_rec,                    \* per address with a record: status, pendingRegistration
    \* reconciliation loop, store synchronisation
    recently_seen_devices,        \* recently_seen_devices
    device_previous_status,       \* device_previous_status
    last_full_probe_time,         \* last_full_probe_time
    devices_rec,                  \* the records get_known_devices() returned, by address
    present_set,                  \* present_set
    todo,                         \* the addresses the running for-loop has yet to visit
    asked,                        \* this cycle's _submit_convex_call requests
    sent,                         \* those of them that were dispatched to the store
    replied,                      \* those of them that returned something other than None
    unlogged,                     \* per address whose latest log_attendance returned False,
                                  \* the cycle of that call
    presenceObs,                  \* this cycle's presence pass, as observed: the
                                  \* probe_devices call and the entries pruned
    late,                         \* updateDeviceStatus mutations that timed out at the
                                  \* client: the ones the store has yet to apply and the
                                  \* ones it has applied since
    \* probe scheduler
    MAX_RECONNECT_PER_CYCLE,      \* MAX_RECONNECT_PER_CYCLE, read once from the environment
    last_connection_attempts,     \* _last_connection_attempts
    attempt_started,              \* per address, when its latest connect began
    probe,                        \* the latest probe_devices call, as observed
    \* main loop
    run,                          \* run_presence_tracker: position and history
    \* link layer (BlueZ), outside the program: the devices it has an object for
    bluez,
    \* administrative interface
    forget,                       \* the latest forget-device request, as observed
    \* expiry cleanup
    expiry                        \* the latest cleanup_expired_devices call, as observed

breakerVars == <<convex_consecutive_timeouts, convex_circuit_open_until,
                 call, prevCall>>
linkVars == <<linkConnected, lockHeld>>
connVars == <<failed_connection_attempts, next_probe_allowed_at, conn, pc,
              connCalls>>

loopVars == <<store, device_first_seen, failed_registrations,
              last_discovery_refresh_time, last_rssi_refresh_time, cycle_now, snapshot,
              devices, lpc, regConnected, regInRange, firstObserved,
              earliestInRange, removed>>

syncVars == <<store_rec, recently_seen_devices, device_previous_status,
              last_full_probe_time, devices_rec, present_set, todo, asked, sent,
              replied, unlogged, presenceObs, late>>

probeVars == <<MAX_RECONNECT_PER_CYCLE, last_connection_attempts, attempt_started,
               probe>>

runVars == <<run>>

adminVars == <<bluez, forget>>

cleanupVars == <<expiry>>

vars == <<clock, breakerVars, linkVars, connVars, bk, loopVars, syncVars, probeVars,
          runVars, adminVars, cleanupVars>>

NoCall == [at |-> -1, openBefore |-> 0, countBefore |-> 0, dispatched |-> FALSE,
           outcome |-> "none", result |-> None, end |-> -1]

Short(c) == [outcome |-> c.outcome, countBefore |-> c.countBefore, end |-> c.end]

\* ------------------------------------------------------------------------
\* Upstream sync client: _submit_convex_call
\* ------------------------------------------------------------------------

\* faulty gates: one that lets calls through in the last seconds of the open
\* window, one that still rejects at the instant the window ends
CircuitOpenAt_EarlyClose(now, openUntil) == now + CONVEX_QUERY_TIMEOUT < openUntil
CircuitOpenAt_Inclusive(now, openUntil) == now <= openUntil

\* line 140: the circuit-breaker gate, evaluated on now = time.monotonic()
CircuitOpenAt(now, openUntil) == now < openUntil

\* faulty threshold test: trips one timeout late
TimeoutTrips_Late(count) == count > MAX_CONVEX_CONSECUTIVE_TIMEOUTS

\* line 171: whether the counter reached by a timeout trips the breaker
TimeoutTrips(count) == count >= MAX_CONVEX_CONSECUTIVE_TIMEOUTS

\* faulty bookkeeping: an error leaves the counter as it was
CounterAfter_ErrorKeeps(outcome, count) ==
    CASE outcome = "ok"      -> 0
      [] outcome = "timeout" -> count + 1
      [] outcome = "error"   -> count

\* lines 159, 163, 182: the counter left by a dispatched call
CounterAfter(outcome, count) ==
    CASE outcome = "ok"      -> 0
      [] outcome = "timeout" -> count + 1
      [] outcome = "error"   -> 0

\* faulty trip: after an open window the timeouts are counted from zero again
OpenUntilAfter_CountsAnew(outcome, count, openUntil, endAt) ==
    IF outcome = "timeout"
       /\ TimeoutTrips(CounterAfter(outcome, IF openUntil > 0 THEN 0 ELSE count))
    THEN endAt + CONVEX_CIRCUIT_OPEN_SECONDS
    ELSE openUntil

\* lines 171-172: _convex_circuit_open_until left by a dispatched call that
\* ended at endAt (time.monotonic() read after the wait)
OpenUntilAfter(outcome, count, openUntil, endAt) ==
    IF outcome = "timeout" /\ TimeoutTrips(CounterAfter(outcome, count))
    THEN endAt + CONVEX_CIRCUIT_OPEN_SECONDS
    ELSE openUntil

\* lines 160, 178, 183: what the caller receives
ResultOf(outcome) == IF outcome = "ok" THEN Value ELSE None

\* One whole _submit_convex_call on the breaker's state.  outcome is what the
\* submitted fn does: completes in time ("ok"), raises ("error") or outlives
\* the query timeout.  call.dispatched records that line 153
\* (_convex_executor.submit(fn)) ran.
BreakerCall(outcome, dur) ==
    /\ prevCall' = Short(call)
    /\ IF CircuitOpenAt(clock, convex_circuit_open_until)
       THEN /\ call' = [at |-> clock, openBefore |-> convex_circuit_open_until,
                        countBefore |-> convex_consecutive_timeouts,
                        dispatched |-> FALSE, outcome |-> "skipped",
                        result |-> None, end |-> clock]
            /\ UNCHANGED <<clock, convex_consecutive_timeouts,
                           convex_circuit_open_until>>
       ELSE LET endAt == clock + (IF outcome = "timeout"
                                  THEN CONVEX_QUERY_TIMEOUT ELSE dur)
            IN  /\ clock' = endAt
                /\ convex_consecutive_timeouts' =
                       CounterAfter(outcome, convex_consecutive_timeouts)
                /\ convex_circuit_open_until' =
                       OpenUntilAfter(outcome, convex_consecutive_timeouts,
                                      convex_circuit_open_until, endAt)
                /\ call' = [at |-> clock, openBefore |-> convex_circuit_open_until,
                            countBefore |-> convex_consecutive_timeouts,
                            dispatched |-> TRUE, outcome |-> outcome,
                            result |-> ResultOf(outcome), end |-> endAt]

\* a _submit_convex_call of any caller
submit_convex_call(outcome, dur) ==
    /\ clock <= MaxClock
    /\ BreakerCall(outcome, dur)
    /\ UNCHANGED <<linkVars, connVars, bk, loopVars, syncVars, probeVars, runVars, adminVars, cleanupVars>>

ConvexCall ==
    \E outcome \in {"ok", "timeout", "error"}, dur \in 0..MaxCallDur :
        submit_convex_call(outcome, dur)

\* time passing between two store calls: time.sleep(POLLING_INTERVAL)
Sleep ==
    /\ clock <= MaxClock
    /\ clock' = clock + POLLING_INTERVAL
    /\ UNCHANGED <<breakerVars, linkVars, connVars, bk, loopVars, syncVars, probeVars, runVars, adminVars, cleanupVars>>

\* ------------------------------------------------------------------------
\* Connection controller: backoff bookkeeping
\* ------------------------------------------------------------------------

\* dict.get(k, d), d[k] = v, del d[k]
MapGet(m, k, d) == IF k \in DOMAIN m THEN m[k] ELSE d
MapPut(m, k, v) == [x \in DOMAIN m \cup {k} |-> IF x = k THEN v ELSE m[x]]
MapDel(m, k) == [x \in DOMAIN m \ {k} |-> m[x]]

\* min(x * 2^e, PROBE_BACKOFF_MAX_SECONDS), without forming 2^e
RECURSIVE ScaledCapped(_, _)
ScaledCapped(x, e) ==
    IF e = 0 \/ x >= PROBE_BACKOFF_MAX_SECONDS
    THEN Min(x, PROBE_BACKOFF_MAX_SECONDS)
    ELSE ScaledCapped(2 * x, e - 1)

\* faulty backoff: the delay never grows
BackoffSeconds_Flat(failures) ==
    [raised |-> FALSE, value |-> PROBE_BACKOFF_BASE_SECONDS]

\* lines 555-558: min(PROBE_BACKOFF_BASE_SECONDS * (2 ** (failures - 1)),
\* PROBE_BACKOFF_MAX_SECONDS) in Python arithmetic: the int 2 ** (failures - 1)
\* is converted to a double for the product, which raises OverflowError from
\* 2 ** 1024 on; below that the product may be inf and min() returns the cap.
BackoffSeconds(failures) ==
    IF failures - 1 >= FLOAT_MAX_EXP
    THEN [raised |-> TRUE, value |-> 0]
    ELSE [raised |-> FALSE,
          value |-> ScaledCapped(PROBE_BACKOFF_BASE_SECONDS, failures - 1)]

\* lines 550-565: _record_probe_failure at time.monotonic() = now.  The count
\* is stored (line 552) before the backoff is computed (line 555).
record_probe_failure(failed, nxt, mac, now) ==
    LET failures == MapGet(failed, mac, 0) + 1
        failed2 == MapPut(failed, mac, failures)
        backoff == BackoffSeconds(failures)
    IN  IF failures <= 0
        THEN [failed |-> failed2, next |-> nxt, raised |-> FALSE]
        ELSE IF backoff.raised
        THEN [failed |-> failed2, next |-> nxt, raised |-> TRUE]
        ELSE [failed |-> failed2, next |-> MapPut(nxt, mac, now + backoff.value),
              raised |-> FALSE]

\* faulty reset: forgets the count and keeps the next-allowed time
reset_probe_failure_KeepsNext(failed, nxt, mac) ==
    [failed |-> MapDel(failed, mac), next |-> nxt]

\* lines 568-572: _reset_probe_failure
reset_probe_failure(failed, nxt, mac) ==
    [failed |-> MapDel(failed, mac), next |-> MapDel(nxt, mac)]

\* ------------------------------------------------------------------------
\* Connection controller: connect_device, disconnect_device
\* ------------------------------------------------------------------------
Connect == "connect"
Disconnect == "disconnect"
Unknown == "unknown"

Tri(b) == IF b THEN "true" ELSE "false"

\* the live org.bluez.Device1.Connected value of mac
Live(mac) == Tri(mac \in linkConnected)

NoConn == [op |-> "none", mac |-> "none", timeout |-> 0, snapConnected |-> FALSE,
           dbus |-> "none", bt |-> "none", reads |-> <<>>, fresh |-> "unread",
           resolved |-> FALSE, result |-> "none", failuresBefore |-> 0,
           end |-> -1, liveAtReturn |-> FALSE, overlap |-> {}]

\* lines 600-603 (connect), 399 and 435 (disconnect: the default)
HardTimeout(op, timeout) ==
    IF op = Connect
    THEN IF timeout = PROBE_CONNECT_TIMEOUT_SECONDS
         THEN PROBE_CONNECT_TIMEOUT_SECONDS + PROBE_CONNECT_TIMEOUT_BUFFER_SECONDS
         ELSE timeout + CONNECT_TIMEOUT_BUFFER_SECONDS
    ELSE CONNECT_TIMEOUT_SECONDS + CONNECT_TIMEOUT_BUFFER_SECONDS

\* the state the verification looks for
Expected(op) == Tri(op = Connect)

\* faulty snapshot fallback: looks the device up in the caller's snapshot
SnapshotFallback_Stale(c, fetched) == Tri(c.snapConnected)

\* lines 542-544, 243-250, 179-186: check_device_connected(mac_address) on a
\* FRESH snapshot: the live state, or not connected when the snapshot could
\* not be fetched or does not hold the device
SnapshotFallback(c, fetched) == IF fetched THEN Live(c.mac) ELSE "false"

\* faulty end of a call: success is what the primitives reported
Outcome_TrustsPrimitive(c, verified) == c.dbus = "ok" \/ c.bt = "ok"

\* lines 629-632, 701-704: the call's outcome is the verification's
Outcome(c, verified) == verified

\* lines 632-655 and 704-723: the end of a call whose verification returned
\* `verified`; c is the call with everything it observed
Finish(c, verified) ==
    LET ok == Outcome(c, verified)
        rst == reset_probe_failure(failed_connection_attempts,
                                   next_probe_allowed_at, c.mac)
        rec == record_probe_failure(failed_connection_attempts,
                                    next_probe_allowed_at, c.mac, clock)
        res == IF ok THEN "true"
               ELSE IF c.op = Connect /\ rec.raised THEN "raised" ELSE "false"
    IN  /\ failed_connection_attempts' =
               IF c.op = Disconnect THEN failed_connection_attempts
               ELSE IF ok THEN rst.failed ELSE rec.failed
        /\ next_probe_allowed_at' =
               IF c.op = Disconnect THEN next_probe_allowed_at
               ELSE IF ok THEN rst.next ELSE rec.next
        /\ conn' = [c EXCEPT !.result = res, !.end = clock,
                             !.liveAtReturn = c.mac \in linkConnected]
        /\ pc' = "idle"

\* lines 588-590 with 337-362 and 365-384: connect_device sets Trusted on a
\* device its snapshot holds and shows as not trusted; trust_device takes no
\* lock for it
TrustsNow(op, inSnap, trusted) == op = Connect /\ inSnap /\ ~trusted

\* what a transport access made without _dbus_operation_lock adds to the
\* call's record: its name, if a worker is inside a primitive at that moment
Unlocked(what) == IF lockHeld THEN {what} ELSE {}

get_device_path_Any(inSnap) == TRUE

\* lines 329-334: _get_device_path finds a link handle only for a device the
\* snapshot holds
get_device_path(inSnap) == inSnap

\* lines 587-603 and 668-674: the call starts; the trust step of connect_device
\* changes nothing the controller reads.  inSnap: the snapshot in use holds the
\* device, so that _get_device_path resolves its link handle; without it the
\* call returns False at once (lines 593-595, 669-671).
ConnStart(op, mac, timeout, inSnap, snapConn, trusted) ==
    /\ pc = "idle"
    /\ clock <= MaxConnClock
    /\ connCalls < MaxConnCalls
    /\ connCalls' = connCalls + 1
    /\ LET c == [NoConn EXCEPT !.op = op, !.mac = mac, !.timeout = timeout,
                     !.snapConnected = snapConn, !.resolved = inSnap,
                     !.failuresBefore =
                         MapGet(failed_connection_attempts, mac, 0),
                     !.overlap = IF TrustsNow(op, inSnap, trusted)
                                 THEN Unlocked("trust") ELSE {}]
       IN  IF get_device_path(inSnap)
           THEN /\ conn' = [c EXCEPT !.result = "pending"]
                /\ pc' = "primary"
           ELSE /\ conn' = [c EXCEPT !.result = "false", !.end = clock,
                                     !.liveAtReturn = mac \in linkConnected]
                /\ pc' = "idle"
    /\ UNCHANGED <<clock, failed_connection_attempts, next_probe_allowed_at,
                   linkVars, breakerVars, bk, loopVars, syncVars, probeVars, runVars, adminVars, cleanupVars>>

StartCall ==
    \E op \in {Connect, Disconnect}, mac \in Addr,
       timeout \in {CONNECT_TIMEOUT_SECONDS, PROBE_CONNECT_TIMEOUT_SECONDS},
       inSnap \in BOOLEAN, snapConn \in BOOLEAN, trusted \in BOOLEAN :
        /\ (op = Disconnect => timeout = CONNECT_TIMEOUT_SECONDS)
        /\ (~inSnap => ~snapConn /\ ~trusted)
        /\ ConnStart(op, mac, timeout, inSnap, snapConn, trusted)

\* lines 605-610, 676-680 with 398-431 and 386-395: the primary primitive in
\* a worker.  The worker needs _dbus_operation_lock: while an abandoned worker
\* holds it the new one waits until the hard timeout; a worker that hangs in
\* the call keeps the lock after the caller has gone on.  A primitive that
\* answers does so within the clock's resolution.
Primary(outcome) ==
    /\ pc = "primary"
    /\ lockHeld => outcome = "hard timeout"
    /\ lockHeld' = (outcome = "hard timeout")
    /\ clock' = clock + (IF outcome = "hard timeout"
                         THEN HardTimeout(conn.op, conn.timeout) ELSE 0)
    /\ conn' = [conn EXCEPT !.dbus = outcome]
    /\ pc' = IF outcome = "ok" THEN "verify" ELSE "fallback"
    /\ UNCHANGED <<linkConnected, failed_connection_attempts,
                   next_probe_allowed_at, connCalls, breakerVars, bk, loopVars, syncVars, probeVars, runVars, adminVars, cleanupVars>>

PrimaryStep == \E outcome \in {"ok", "error", "hard timeout"} : Primary(outcome)

\* lines 439-476: subprocess.run raises OSError when the binary cannot be
\* started; only FileNotFoundError ("fail" here, like a non-zero exit) and
\* TimeoutExpired are caught, any other one (PermissionError, no memory for the
\* fork) leaves _run_bluetoothctl_operation and, nothing catching it at lines
\* 620 and 690, connect_device or disconnect_device
FallbackRaises(outcome) == outcome = "os error"

\* lines 614-627, 684-699 with 434-476: the bluetoothctl fallback; it runs
\* outside _dbus_operation_lock
Fallback(outcome) ==
    /\ pc = "fallback"
    /\ clock' = clock + (IF outcome = "timeout"
                         THEN HardTimeout(conn.op, conn.timeout) ELSE 0)
    /\ LET c == [conn EXCEPT !.bt = outcome,
                             !.overlap = conn.overlap \cup Unlocked("bluetoothctl")]
       IN  IF FallbackRaises(outcome)
           THEN /\ conn' = [c EXCEPT !.result = "raised", !.end = clock,
                                     !.liveAtReturn = c.mac \in linkConnected]
                /\ pc' = "idle"
           ELSE /\ conn' = c
                /\ pc' = "verify"
    /\ UNCHANGED <<linkVars, failed_connection_attempts, next_probe_allowed_at,
                   connCalls, breakerVars, bk, loopVars, syncVars, probeVars, runVars, adminVars, cleanupVars>>

FallbackStep ==
    \E outcome \in {"ok", "fail", "timeout", "os error"} : Fallback(outcome)

after_failed_read_Counted(c, val) ==
    IF val = Unknown /\ c.op = Connect
    THEN record_probe_failure(failed_connection_attempts,
                              next_probe_allowed_at, c.mac, clock)
    ELSE [failed |-> failed_connection_attempts,
          next |-> next_probe_allowed_at]

\* lines 505-513 and 523-535: a pass of the verification loop that did not
\* match, the read having failed or not, logs, sleeps and goes on: the
\* failure maps after it are the ones before it
after_failed_read(c, val) ==
    [failed |-> failed_connection_attempts, next |-> next_probe_allowed_at]

\* lines 505-535 with 479-494: one pass of the verification loop.  The read
\* takes _dbus_operation_lock; it fails (None) or returns the live value.  The
\* waits between the reads (0.2 s, 0.4 s) are below the clock's resolution.
VerifyRead(readOk) ==
    /\ pc = "verify"
    /\ ~lockHeld
    /\ LET val == IF readOk THEN Live(conn.mac) ELSE Unknown
           c == [conn EXCEPT !.reads = Append(conn.reads, val)]
       IN  IF val = Expected(conn.op)
           THEN Finish(c, TRUE)
           ELSE /\ conn' = c
                /\ pc' = IF Len(c.reads) < 3 THEN "verify" ELSE "snapshot"
                /\ failed_connection_attempts' =
                       after_failed_read(c, val).failed
                /\ next_probe_allowed_at' = after_failed_read(c, val).next
    /\ UNCHANGED <<clock, linkVars, connCalls, breakerVars, bk, loopVars, syncVars, probeVars, runVars, adminVars, cleanupVars>>

VerifyStep == \E readOk \in BOOLEAN : VerifyRead(readOk)

\* lines 537-547: after three passes without a match, the snapshot check
SnapshotCheck(fetched) ==
    /\ pc = "snapshot"
    /\ LET c == [conn EXCEPT !.fresh = SnapshotFallback(conn, fetched),
                             !.overlap = conn.overlap \cup Unlocked("snapshot")]
       IN  Finish(c, c.fresh = Expected(conn.op))
    /\ UNCHANGED <<clock, linkVars, connCalls, breakerVars, bk, loopVars, syncVars, probeVars, runVars, adminVars, cleanupVars>>

SnapshotStep == \E fetched \in BOOLEAN : SnapshotCheck(fetched)

\* the link layer: a device connects or drops at any moment (its own doing,
\* a primitive taking effect, an abandoned worker's call completing late)
LinkChange(a) ==
    /\ linkConnected' = IF a \in linkConnected THEN linkConnected \ {a}
                        ELSE linkConnected \cup {a}
    /\ UNCHANGED <<clock, lockHeld, connVars, breakerVars, bk, loopVars, syncVars, probeVars, runVars, adminVars, cleanupVars>>

LinkStep == \E a \in Addr : LinkChange(a)

\* an abandoned worker's call returns at last and releases the lock
WorkerFinishes ==
    /\ lockHeld
    /\ lockHeld' = FALSE
    /\ UNCHANGED <<clock, linkConnected, connVars, breakerVars, bk, loopVars, syncVars, probeVars, runVars, adminVars, cleanupVars>>

\* ------------------------------------------------------------------------
\* Reconciliation loop: check_and_update_devices, registration
\* ------------------------------------------------------------------------
NoSnapshot == [present |-> {}, connected |-> {}, paired |-> {}, trusted |-> {},
               signal |-> {}]

\* what get_device_snapshot may return: for each device BlueZ knows, its
\* Connected, Paired and Trusted flags and whether RSSI or TxPower is set.
\* For a connected device the loop reads neither Trusted nor the signal
\* (lines 167-168, 474, 530-531), so the enumeration leaves them clear.
Snapshots ==
    {[present |-> p, connected |-> c, paired |-> q, trusted |-> t, signal |-> g] :
        <<p, c, q, t, g>> \in
            {x \in (SUBSET Addr) \X (SUBSET Addr) \X (SUBSET Addr)
                       \X (SUBSET Addr) \X (SUBSET Addr) :
                /\ (x[2] \cup x[3] \cup x[4] \cup x[5]) \subseteq x[1]
                /\ x[2] \cap (x[4] \cup x[5]) = {}}}

\* faulty freshness: a reading never ages
is_rssi_fresh_Always(t, refreshedAt) == TRUE

\* bluetooth_scanner lines 175-176
is_rssi_fresh(t, refreshedAt) == t - refreshedAt <= RSSI_FRESHNESS_SECONDS

\* bluetooth_scanner lines 167-172
device_has_presence_signal(snap, mac, rssi_fresh) ==
    IF mac \in snap.connected THEN TRUE
    ELSE IF ~rssi_fresh THEN FALSE
    ELSE mac \in snap.signal

\* bluetooth_scanner lines 972-976
get_devices_in_range(snap, t, refreshedAt) ==
    {mac \in snap.present :
        device_has_presence_signal(snap, mac, is_rssi_fresh(t, refreshedAt))}

\* presence_tracker lines 474-485: paired, connected or trusted, and a
\* presence signal
HasRegistrationSignals(snap, mac) ==
    /\ mac \in snap.paired \/ mac \in snap.connected \/ mac \in snap.trusted
    /\ mac \in snap.connected \/ mac \in snap.signal

\* faulty debounce: a second observation is enough, however soon
DebounceElapsed_Any(t, first_seen) == TRUE

\* presence_tracker lines 505-509
DebounceElapsed(t, first_seen) == ~(t - first_seen < FIRST_SEEN_DEBOUNCE_SECONDS)

\* presence_tracker lines 529-537: the devices _find_registration_candidates
\* passes to _should_register_device
Examined(snap, t, refreshedAt) ==
    get_devices_in_range(snap, t, refreshedAt) \ snap.connected

\* presence_tracker lines 488-502: the first observations of this pass
NewlySeen(snap, t, refreshedAt, first_seen) ==
    {mac \in Examined(snap, t, refreshedAt) :
        HasRegistrationSignals(snap, mac) /\ mac \notin DOMAIN first_seen}

\* presence_tracker lines 461-509 over 529-538: the candidates returned
find_registration_candidates(snap, t, refreshedAt, first_seen) ==
    {mac \in Examined(snap, t, refreshedAt) :
        /\ HasRegistrationSignals(snap, mac)
        /\ mac \in DOMAIN first_seen
        /\ DebounceElapsed(t, first_seen[mac])}

\* lines 562-582: the cycle begins: now, the rate-limited discovery refresh
\* (which sleeps for the scan window and, unless it fails, stamps the RSSI
\* refresh time at its end), then the snapshot
CycleBegin(refreshOk, snap) ==
    /\ lpc = "sleeping"
    /\ clock <= WallStart + MaxLoopSpan
    /\ LET due == clock - last_discovery_refresh_time
                      >= DISCOVERY_REFRESH_INTERVAL_SECONDS
           after == IF due /\ refreshOk THEN clock + IN_RANGE_SCAN_SECONDS
                    ELSE clock
           refreshedAt == IF due /\ refreshOk THEN after
                          ELSE last_rssi_refresh_time
           seen == get_devices_in_range(snap, clock, refreshedAt)
       IN  /\ cycle_now' = clock
           /\ clock' = after
           /\ last_discovery_refresh_time' =
                  IF due THEN clock ELSE last_discovery_refresh_time
           /\ last_rssi_refresh_time' = refreshedAt
           /\ earliestInRange' =
                  [a \in DOMAIN earliestInRange \cup seen |->
                      IF a \in DOMAIN earliestInRange THEN earliestInRange[a]
                      ELSE clock]
    /\ snapshot' = snap
    /\ removed' = {}
    /\ regConnected' = {}
    /\ regInRange' = {}
    /\ firstObserved' = {}
    /\ devices' = {}
    /\ lpc' = "query"
    /\ UNCHANGED <<store, device_first_seen, failed_registrations>>
    /\ UNCHANGED <<breakerVars, linkVars, connVars, bk, probeVars, runVars, adminVars, cleanupVars>>

BeginStep ==
    /\ \E refreshOk \in BOOLEAN, snap \in Snapshots : CycleBegin(refreshOk, snap)
    /\ UNCHANGED syncVars

\* lines 585-591 with 192-207: get_known_devices; None reads as no devices
QueryKnown(answered) ==
    /\ lpc = "query"
    /\ devices' = IF answered THEN store ELSE {}
    /\ lpc' = "register_connected"
    /\ UNCHANGED <<clock, store, device_first_seen, failed_registrations,
                   last_discovery_refresh_time, last_rssi_refresh_time, cycle_now,
                   snapshot, regConnected, regInRange, firstObserved,
                   earliestInRange, removed>>
    /\ UNCHANGED <<breakerVars, linkVars, connVars, bk, probeVars, runVars, adminVars, cleanupVars>>

QueryStep ==
    /\ \E answered \in BOOLEAN : QueryKnown(answered)
    /\ UNCHANGED syncVars

\* what a registerPendingDevice call may come to: answered, lost, or applied
\* by the store after the client gave up (the caller reads None)
RegisterOutcomes == {"ok", "lost", "late"}

\* lines 702-722 with 231-273: connected devices without a record are
\* registered at once
RegisterConnected(outs) ==
    /\ lpc = "register_connected"
    /\ LET new == snapshot.connected \ devices
           okd == {m \in new : outs[m] = "ok"}
       IN  /\ DOMAIN outs = new
           /\ regConnected' = new
           /\ failed_registrations' =
                  (failed_registrations \ ((snapshot.connected \cap devices) \cup okd))
                      \cup (new \ okd)
           /\ store' = store \cup {m \in new : outs[m] \in {"ok", "late"}}
    /\ lpc' = "register_in_range"
    /\ UNCHANGED <<clock, device_first_seen, last_discovery_refresh_time,
                   last_rssi_refresh_time, cycle_now, snapshot, devices, regInRange,
                   firstObserved, earliestInRange, removed>>
    /\ UNCHANGED <<breakerVars, linkVars, connVars, bk, probeVars, runVars, adminVars, cleanupVars>>

RegisterConnectedStep ==
    /\ \E outs \in [snapshot.connected \ devices -> RegisterOutcomes] :
        RegisterConnected(outs)
    /\ UNCHANGED syncVars

\* faulty bookkeeping: every attempt forgets the first observation
FirstSeenDropped_Attempted(cands, devs, okd) == cands

\* lines 729-731 and 744-746: the candidates whose first-seen entry is
\* popped: those with a record and those whose registration returned True
FirstSeenDropped(cands, devs, okd) == (cands \cap devs) \cup okd

\* lines 725-748 with 512-544 and 461-509: first observations are recorded,
\* debounced candidates without a record are registered
RegisterInRange(outs) ==
    /\ lpc = "register_in_range"
    /\ LET fresh == NewlySeen(snapshot, cycle_now, last_rssi_refresh_time,
                              device_first_seen)
           cands == find_registration_candidates(snapshot, cycle_now,
                        last_rssi_refresh_time, device_first_seen)
           new == cands \ devices
           okd == {m \in new : outs[m] = "ok"}
           dropped == FirstSeenDropped(cands, devices, okd)
       IN  /\ DOMAIN outs = new
           /\ firstObserved' = fresh
           /\ regInRange' = new
           /\ device_first_seen' =
                  [a \in (DOMAIN device_first_seen \cup fresh) \ dropped |->
                      IF a \in fresh THEN cycle_now ELSE device_first_seen[a]]
           /\ failed_registrations' = (failed_registrations \ okd) \cup (new \ okd)
           /\ store' = store \cup {m \in new : outs[m] \in {"ok", "late"}}
    /\ lpc' = "cleanup_stale"
    /\ UNCHANGED <<clock, last_discovery_refresh_time, last_rssi_refresh_time,
                   cycle_now, snapshot, devices, regConnected, earliestInRange, removed>>
    /\ UNCHANGED <<breakerVars, linkVars, connVars, bk, probeVars, runVars, adminVars, cleanupVars>>

RegisterInRangeStep ==
    /\ \E outs \in [find_registration_candidates(snapshot, cycle_now,
                     last_rssi_refresh_time, device_first_seen) \ devices
                 -> RegisterOutcomes] :
        RegisterInRange(outs)
    /\ UNCHANGED syncVars

\* faulty cleanup: connected devices are not spared
stale_devices_All(snap, convex_macs) == snap.paired \ convex_macs

\* presence_tracker line 346: paired_set - convex_macs - connected_set, the
\* sets being read from the cycle's snapshot (lines 325-332)
stale_devices(snap, convex_macs) == (snap.paired \ convex_macs) \ snap.connected

\* presence_tracker lines 338-355: the addresses remove_device is called
\* for, none when no record was retrieved; requeried is what the second
\* get_known_devices of line 338 returns when the cycle's list is empty
StaleRemovals(snap, devs, requeried) ==
    LET convex_devices == IF devs # {} THEN devs ELSE requeried
    IN  IF convex_devices = {} THEN {} ELSE stale_devices(snap, convex_devices)

\* lines 794-795 with 316-360: cleanup_stale_bluetooth_pairings
CleanupStale(answered) ==
    /\ lpc = "cleanup_stale"
    /\ removed' = StaleRemovals(snapshot, devices, IF answered THEN store ELSE {})
    /\ lpc' = "finish"
    /\ UNCHANGED <<clock, store, device_first_seen, failed_registrations,
                   last_discovery_refresh_time, last_rssi_refresh_time, cycle_now,
                   snapshot, devices, regConnected, regInRange, firstObserved,
                   earliestInRange>>
    /\ UNCHANGED <<breakerVars, linkVars, connVars, bk, probeVars, runVars, adminVars, cleanupVars>>

CleanupStaleStep ==
    /\ \E answered \in BOOLEAN : CleanupStale(answered)
    /\ UNCHANGED syncVars

\* lines 887-894: the cycle ends, its locals go, and the loop sleeps; slow is
\* the time the cycle's store calls took
CycleEnd(slow) ==
    /\ lpc = "finish"
    /\ clock' = clock + slow + POLLING_INTERVAL
    /\ lpc' = "sleeping"
    /\ cycle_now' = 0
    /\ snapshot' = NoSnapshot
    /\ devices' = {}
    /\ regConnected' = {}
    /\ regInRange' = {}
    /\ firstObserved' = {}
    /\ removed' = {}
    /\ UNCHANGED <<store, device_first_seen, failed_registrations,
                   last_discovery_refresh_time, last_rssi_refresh_time,
                   earliestInRange>>
    /\ UNCHANGED <<breakerVars, linkVars, connVars, bk, probeVars, runVars, adminVars, cleanupVars>>

EndStep ==
    /\ \E slow \in {0, CONVEX_QUERY_TIMEOUT} : CycleEnd(slow)
    /\ UNCHANGED syncVars

\* ------------------------------------------------------------------------
\* Reconciliation loop: the calls to the store, each through the breaker
\* ------------------------------------------------------------------------
\* the members of S in the order of the store's list
ListOf(S) == SelectSeq(SyncOrder, LAMBDA a : a \in S)

\* snapshots in which every device BlueZ knows is paired and connected: the
\* in-range path (lines 725-748) then has no candidate.  alias and name are
\* the devices that have an Alias and a Name property: a device has both or
\* neither.
SyncSnapshots ==
    UNION {{[present |-> c, connected |-> c, paired |-> c, trusted |-> {},
             signal |-> {}, alias |-> n, name |-> n] : n \in SUBSET c} :
           c \in SUBSET SyncAddr}

\* the strings BlueZ holds for a device
AliasOf(mac) == <<"alias", mac>>
NameOf(mac) == <<"name", mac>>

\* faulty lookup: the Name property first
get_device_name_NameFirst(snap, mac) ==
    IF mac \notin snap.present THEN None
    ELSE IF mac \in snap.name THEN NameOf(mac)
    ELSE IF mac \in snap.alias THEN AliasOf(mac)
    ELSE None

\* bluetooth_scanner lines 264-289: alias or name, None without either or
\* without the device
get_device_name(snap, mac) ==
    IF mac \notin snap.present THEN None
    ELSE IF mac \in snap.alias THEN AliasOf(mac)
    ELSE IF mac \in snap.name THEN NameOf(mac)
    ELSE None

\* presence_tracker line 248: "name": name or ""
NameArg(name) == IF name = None THEN <<>> ELSE name

\* what the store may hold for a device; a record without the status field
\* reads "unknown" (line 757)
Statuses == {"present", "absent"}

\* what a call does upstream: answered and applied, lost, applied although
\* the client timed out, or raised
StoreOutcomes ==
    {[outcome |-> "ok", applied |-> TRUE],
     [outcome |-> "timeout", applied |-> FALSE],
     [outcome |-> "timeout", applied |-> TRUE],
     [outcome |-> "error", applied |-> FALSE]}

\* a request to _submit_convex_call, as this cycle's log keeps it; name is
\* the name argument of registerPendingDevice
NamedReq(kind, mac, name) == [kind |-> kind, mac |-> mac, name |-> name]
Req(kind, mac) == NamedReq(kind, mac, <<>>)

\* one _submit_convex_call by the loop, logged: asked, and sent when line 153
\* dispatched it
LoggedReq(r, o) ==
    /\ BreakerCall(o.outcome, 0)
    /\ asked' = asked \cup {r}
    /\ sent' = IF call'.dispatched THEN sent \cup {r} ELSE sent
    /\ replied' = IF call'.result # None THEN replied \cup {r} ELSE replied

LoggedCall(kind, mac, o) == LoggedReq(Req(kind, mac), o)

\* whether the store applied the call: it was dispatched and arrived
Applied(o) == call'.dispatched /\ o.applied

\* no presence pass yet in this cycle
NoPresenceObs == [called |-> FALSE, candidates |-> {}, previous |-> 0,
                  pruned |-> {}, reconnected |-> {}]

\* no mutation is under way in the store
NoLate == [pending |-> {}, landed |-> {}]

\* lines 562-582: as CycleBegin, and the cycle's logs start empty
SyncBegin(refreshOk, snap) ==
    /\ lpc = "sleeping"
    /\ LET due == clock - last_discovery_refresh_time
                      >= DISCOVERY_REFRESH_INTERVAL_SECONDS
           after == IF due /\ refreshOk THEN clock + IN_RANGE_SCAN_SECONDS
                    ELSE clock
       IN  /\ cycle_now' = clock
           /\ clock' = after
           /\ last_discovery_refresh_time' =
                  IF due THEN clock ELSE last_discovery_refresh_time
           /\ last_rssi_refresh_time' =
                  IF due /\ refreshOk THEN after ELSE last_rssi_refresh_time
    /\ snapshot' = snap
    /\ removed' = {}
    /\ devices' = {}
    /\ lpc' = "query"
    /\ devices_rec' = [a \in {} |-> 0]
    /\ present_set' = {}
    /\ todo' = <<>>
    /\ asked' = {}
    /\ sent' = {}
    /\ replied' = {}
    /\ UNCHANGED <<store, store_rec, device_first_seen, failed_registrations,
                   regConnected, regInRange, firstObserved, earliestInRange,
                   recently_seen_devices, device_previous_status,
                   last_full_probe_time>>
    /\ presenceObs' = NoPresenceObs
    /\ UNCHANGED <<unlogged, late>>
    /\ UNCHANGED <<breakerVars, linkVars, connVars, bk, probeVars, runVars, adminVars, cleanupVars>>

SyncBeginStep ==
    /\ clock <= WallStart + MaxSyncSpan
    /\ \E refreshOk \in BOOLEAN, snap \in SyncSnapshots :
           SyncBegin(refreshOk, snap)

\* lines 584-591 with 192-207: get_known_devices through the breaker; None
\* reads as no devices
SyncQuery(o) ==
    /\ lpc = "query"
    /\ LoggedCall("getDevices", None, o)
    /\ LET got == call'.result # None
       IN  /\ devices' = IF got THEN store ELSE {}
           /\ devices_rec' = IF got THEN store_rec ELSE [a \in {} |-> 0]
    /\ lpc' = "presence"
    /\ UNCHANGED <<store, store_rec, device_first_seen, failed_registrations,
                   last_discovery_refresh_time, last_rssi_refresh_time, cycle_now,
                   snapshot, regConnected, regInRange, firstObserved,
                   earliestInRange, removed, recently_seen_devices, device_previous_status,
                   last_full_probe_time, present_set, todo>>
    /\ UNCHANGED <<unlogged, presenceObs, late>>
    /\ UNCHANGED <<linkVars, connVars, bk, probeVars, runVars, adminVars, cleanupVars>>

SyncQueryStep == \E o \in StoreOutcomes \ {[outcome |-> "timeout", applied |-> TRUE]} :
    SyncQuery(o)

\* lines 596-600: the non-pending records
registered_macs(recs) == {m \in DOMAIN recs : ~recs[m].pending}

\* faulty selection: every registered device out of range is probed
stale_candidates_OutOfRange(recs, inRange, seen, t) ==
    {m \in registered_macs(recs) : m \notin inRange}

\* lines 630-634: registered devices neither in range nor seen within the TTL
stale_candidates(recs, inRange, seen, t) ==
    {m \in registered_macs(recs) :
        /\ m \notin inRange
        /\ t - MapGet(seen, m, 0) > PRESENT_TTL_SECONDS}

\* faulty presence set: every entry counts, however old
PresentSetOf_All(seen, t) == DOMAIN seen

\* lines 682-686
PresentSetOf(seen, t) == {m \in DOMAIN seen : t - seen[m] <= PRESENT_TTL_SECONDS}

\* faulty marking: only the addresses that have a last-seen time get a new one
mark_seen_KnownOnly(seen, macs, t) ==
    [a \in DOMAIN seen |-> IF a \in macs THEN t ELSE seen[a]]

\* lines 615-616, 661-662 and 678: recently_seen_devices[mac] = now for every
\* mac of the set
mark_seen(seen, macs, t) ==
    [a \in DOMAIN seen \cup macs |-> IF a \in macs THEN t ELSE seen[a]]

\* lines 609-693: last-seen times from the snapshot, from the full probe when
\* it is due (reconnected: the addresses whose probe returned true) and from
\* the newly registered records (graced: those whose connectedSince is within
\* NEWLY_REGISTERED_GRACE_PERIOD); then the presence set and the pruning
SyncPresence(reconnected, graced) ==
    /\ lpc = "presence"
    /\ LET inRange == get_devices_in_range(snapshot, cycle_now,
                                           last_rssi_refresh_time)
           seen1 == mark_seen(recently_seen_devices, inRange, cycle_now)
           probe_due == cycle_now - last_full_probe_time
                            >= FULL_PROBE_INTERVAL_SECONDS
           stale == IF registered_macs(devices_rec) # {} /\ probe_due
                    THEN stale_candidates(devices_rec, inRange, seen1, cycle_now)
                    ELSE {}
           seen2 == mark_seen(mark_seen(seen1, reconnected, cycle_now),
                              graced, cycle_now)
           present == PresentSetOf(seen2, cycle_now)
       IN  /\ reconnected \subseteq stale
           /\ graced \subseteq {m \in DOMAIN devices_rec :
                                   devices_rec[m].status = "present"}
           /\ presenceObs' = [called |-> stale # {}, candidates |-> stale,
                              previous |-> last_full_probe_time,
                              pruned |-> DOMAIN seen2 \ present,
                              reconnected |-> reconnected]
           /\ last_full_probe_time' =
                  IF stale # {} THEN cycle_now ELSE last_full_probe_time
           /\ present_set' = present
           /\ recently_seen_devices' = [a \in present |-> seen2[a]]
    /\ todo' = ListOf(snapshot.connected)
    /\ lpc' = "sync_register"
    /\ UNCHANGED <<clock, breakerVars, store, store_rec, device_first_seen,
                   failed_registrations, last_discovery_refresh_time,
                   last_rssi_refresh_time, cycle_now, snapshot, devices,
                   regConnected, regInRange, firstObserved, earliestInRange, removed,
                   device_previous_status, devices_rec, asked, sent, replied>>
    /\ UNCHANGED <<unlogged, late>>
    /\ UNCHANGED <<linkVars, connVars, bk, probeVars, runVars, adminVars, cleanupVars>>

SyncPresenceStep ==
    \E reconnected \in SUBSET SyncAddr, graced \in SUBSET SyncAddr :
        SyncPresence(reconnected, graced)

\* lines 702-722 with 231-273: one pass of the loop over connected_set.  A
\* connected address without a retrieved record is registered at once; st is
\* the status the store gives the new record
SyncRegister(o, st) ==
    /\ lpc = "sync_register"
    /\ todo # <<>>
    /\ LET m == Head(todo)
       IN  IF m \in devices
           THEN /\ failed_registrations' = failed_registrations \ {m}
                /\ UNCHANGED <<clock, breakerVars, asked, sent, replied, store, store_rec,
                               regConnected>>
           ELSE /\ LoggedReq(NamedReq("registerPendingDevice", m,
                                      NameArg(get_device_name(snapshot, m))), o)
                /\ regConnected' = regConnected \cup {m}
                /\ failed_registrations' =
                       IF call'.result # None THEN failed_registrations \ {m}
                       ELSE failed_registrations \cup {m}
                /\ IF Applied(o) /\ m \notin store
                   THEN /\ store' = store \cup {m}
                        /\ store_rec' = MapPut(store_rec, m,
                                            [status |-> st, pending |-> TRUE])
                   ELSE UNCHANGED <<store, store_rec>>
    /\ todo' = Tail(todo)
    /\ UNCHANGED <<device_first_seen, last_discovery_refresh_time,
                   last_rssi_refresh_time, cycle_now, snapshot, devices, lpc,
                   regInRange, firstObserved, earliestInRange, removed,
                   recently_seen_devices, device_previous_status,
                   last_full_probe_time, devices_rec, present_set>>
    /\ UNCHANGED <<unlogged, presenceObs, late>>
    /\ UNCHANGED <<linkVars, connVars, bk, probeVars, runVars, adminVars, cleanupVars>>

SyncRegisterStep == \E o \in StoreOutcomes, st \in Statuses : SyncRegister(o, st)

\* line 751: the loop over connected_set is over, the loop over devices begins
SyncRegisterDone ==
    /\ lpc = "sync_register"
    /\ todo = <<>>
    /\ todo' = ListOf(devices)
    /\ lpc' = "sync_status"
    /\ UNCHANGED <<clock, breakerVars, store, store_rec, device_first_seen,
                   failed_registrations, last_discovery_refresh_time,
                   last_rssi_refresh_time, cycle_now, snapshot, devices,
                   regConnected, regInRange, firstObserved, earliestInRange, removed,
                   recently_seen_devices, device_previous_status,
                   last_full_probe_time, devices_rec, present_set, asked, sent, replied>>
    /\ UNCHANGED <<unlogged, presenceObs, late>>
    /\ UNCHANGED <<linkVars, connVars, bk, probeVars, runVars, adminVars, cleanupVars>>

\* lines 764-765: the status derived in this cycle
DerivedStatus(present, mac) == IF mac \in present THEN "present" ELSE "absent"

\* faulty comparison: a present device is reported in every cycle
StatusChanged_Heartbeat(new_status, current_status) ==
    new_status # current_status \/ new_status = "present"

\* lines 769 and 432: the comparison that decides whether the store is told
StatusChanged(new_status, current_status) == new_status # current_status

\* faulty test: pending devices are logged as well
LogsAttendance_Always(device) == TRUE

\* lines 446-447: attendance is logged for a record that is not pending
LogsAttendance(device) == ~device.pending

\* lines 751-783 with 404-442: one pass of the loop over devices, up to the
\* return of the updateDeviceStatus call
SyncStatus(o) ==
    /\ lpc = "sync_status"
    /\ todo # <<>>
    /\ LET m == Head(todo)
           current_status == devices_rec[m].status
           new_status == DerivedStatus(present_set, m)
       IN  IF StatusChanged(new_status, current_status)
           THEN /\ LoggedCall("updateDeviceStatus", m, o)
                /\ store_rec' =
                       IF Applied(o) /\ m \in DOMAIN store_rec
                       THEN [store_rec EXCEPT ![m].status = new_status]
                       ELSE store_rec
                /\ IF call'.result = None
                   THEN /\ todo' = Tail(todo)
                        /\ UNCHANGED <<lpc, device_previous_status>>
                   ELSE IF LogsAttendance(devices_rec[m])
                        THEN /\ lpc' = "sync_attendance"
                             /\ UNCHANGED <<todo, device_previous_status>>
                        ELSE /\ device_previous_status' =
                                    MapPut(device_previous_status, m, new_status)
                             /\ todo' = Tail(todo)
                             /\ UNCHANGED lpc
           ELSE /\ device_previous_status' =
                       MapPut(device_previous_status, m, new_status)
                /\ todo' = Tail(todo)
                /\ UNCHANGED <<clock, breakerVars, asked, sent, replied, store_rec, lpc>>
    /\ UNCHANGED <<store, device_first_seen, failed_registrations,
                   last_discovery_refresh_time, last_rssi_refresh_time, cycle_now,
                   snapshot, devices, regConnected, regInRange, firstObserved,
                   earliestInRange, removed, recently_seen_devices, last_full_probe_time,
                   devices_rec, present_set>>
    /\ UNCHANGED <<unlogged, presenceObs, late>>
    /\ UNCHANGED <<linkVars, connVars, bk, probeVars, runVars, adminVars, cleanupVars>>

SyncStatusStep == \E o \in StoreOutcomes : SyncStatus(o)

\* lines 446-458 with 378-401: the attendance entry of a registered device
\* whose update the store answered, then the previous status
SyncAttendance(o) ==
    /\ lpc = "sync_attendance"
    /\ LET m == Head(todo)
       IN  /\ LoggedCall("logAttendance", m, o)
           /\ unlogged' = IF call'.result = None
                          THEN MapPut(unlogged, m, cycle_now)
                          ELSE MapDel(unlogged, m)
           /\ device_previous_status' =
                  MapPut(device_previous_status, m, DerivedStatus(present_set, m))
    /\ todo' = Tail(todo)
    /\ lpc' = "sync_status"
    /\ UNCHANGED <<store, store_rec, device_first_seen, failed_registrations,
                   last_discovery_refresh_time, last_rssi_refresh_time, cycle_now,
                   snapshot, devices, regConnected, regInRange, firstObserved,
                   earliestInRange, removed, recently_seen_devices, last_full_probe_time,
                   devices_rec, present_set>>
    /\ UNCHANGED <<presenceObs, late>>
    /\ UNCHANGED <<linkVars, connVars, bk, probeVars, runVars, adminVars, cleanupVars>>

SyncAttendanceStep ==
    \E o \in StoreOutcomes \ {[outcome |-> "timeout", applied |-> TRUE]} :
        SyncAttendance(o)

\* lines 791-792 with 279-311: the loop over devices is over;
\* cleanup_expired_devices asks the store to purge.  No pending record of
\* these runs is as old as GRACE_PERIOD_SECONDS, so the store purges none.
SyncCleanupExpired(o) ==
    /\ lpc = "sync_status"
    /\ todo = <<>>
    /\ LoggedCall("cleanupExpiredGracePeriods", None, o)
    /\ lpc' = "sync_stale"
    /\ UNCHANGED <<store, store_rec, device_first_seen, failed_registrations,
                   last_discovery_refresh_time, last_rssi_refresh_time, cycle_now,
                   snapshot, devices, regConnected, regInRange, firstObserved,
                   earliestInRange, removed, recently_seen_devices, device_previous_status,
                   last_full_probe_time, devices_rec, present_set, todo>>
    /\ UNCHANGED <<unlogged, presenceObs, late>>
    /\ UNCHANGED <<linkVars, connVars, bk, probeVars, runVars, adminVars, cleanupVars>>

SyncCleanupExpiredStep ==
    \E o \in StoreOutcomes \ {[outcome |-> "timeout", applied |-> TRUE]} :
        SyncCleanupExpired(o)

\* lines 794-795 with 330-334: cleanup_stale_bluetooth_pairings queries the
\* store again when the cycle's list is empty (convex_devices or
\* get_known_devices())
SyncCleanupStale(o) ==
    /\ lpc = "sync_stale"
    /\ IF devices = {}
       THEN LoggedCall("getDevices", None, o)
       ELSE UNCHANGED <<clock, breakerVars, asked, sent, replied>>
    /\ removed' = StaleRemovals(snapshot, devices,
                      IF devices = {} /\ call'.result # None THEN store ELSE {})
    /\ lpc' = "finish"
    /\ UNCHANGED <<store, store_rec, device_first_seen, failed_registrations,
                   last_discovery_refresh_time, last_rssi_refresh_time, cycle_now,
                   snapshot, devices, regConnected, regInRange, firstObserved,
                   earliestInRange, recently_seen_devices, device_previous_status,
                   last_full_probe_time, devices_rec, present_set, todo>>
    /\ UNCHANGED <<unlogged, presenceObs, late>>
    /\ UNCHANGED <<linkVars, connVars, bk, probeVars, runVars, adminVars, cleanupVars>>

SyncCleanupStaleStep ==
    \E o \in StoreOutcomes \ {[outcome |-> "timeout", applied |-> TRUE]} :
        SyncCleanupStale(o)

\* lines 887-894: as CycleEnd; the time the store calls took has passed
SyncEnd ==
    /\ CycleEnd(0)
    /\ devices_rec' = [a \in {} |-> 0]
    /\ present_set' = {}
    /\ asked' = {}
    /\ sent' = {}
    /\ replied' = {}
    /\ presenceObs' = NoPresenceObs
    /\ UNCHANGED <<store_rec, recently_seen_devices, device_previous_status,
                   last_full_probe_time, todo, unlogged, late>>

\* ------------------------------------------------------------------------
\* Reconciliation loop: the presence pass on its own
\* ------------------------------------------------------------------------
\* snapshots in which a device BlueZ knows is connected, carries a signal
\* reading (RSSI or TxPower), or neither
PresSnapshots ==
    UNION {{[present |-> p, connected |-> c, paired |-> p, trusted |-> {},
             signal |-> g, alias |-> {}, name |-> {}] :
                c \in SUBSET p, g \in SUBSET p} : p \in SUBSET SyncAddr}

PresBeginStep ==
    /\ clock <= WallStart + MaxSyncSpan
    /\ \E refreshOk \in BOOLEAN, snap \in {x \in PresSnapshots :
                                              x.connected \cap x.signal = {}} :
           SyncBegin(refreshOk, snap)

\* lines 700-795: the registrations, the status updates and the cleanups
\* leave recently_seen_devices, last_full_probe_time and the refresh times
\* alone; the presence specification passes over them
PresRest ==
    /\ lpc = "sync_register"
    /\ lpc' = "finish"
    /\ todo' = <<>>
    /\ UNCHANGED <<clock, breakerVars, store, store_rec, device_first_seen,
                   failed_registrations, last_discovery_refresh_time,
                   last_rssi_refresh_time, cycle_now, snapshot, devices,
                   regConnected, regInRange, firstObserved, earliestInRange, removed,
                   recently_seen_devices, device_previous_status,
                   last_full_probe_time, devices_rec, present_set, asked, sent,
                   replied, unlogged, presenceObs, late>>
    /\ UNCHANGED <<linkVars, connVars, bk, probeVars, runVars, adminVars, cleanupVars>>

\* ------------------------------------------------------------------------
\* Probe scheduler: probe_devices (bluetooth_scanner.py)
\* ------------------------------------------------------------------------
\* the addresses of the probe specification as the link layer spells them
ProbeAddr == {"A1", "A2"}

\* spellings a caller may pass: the store's spelling of A1 is lower case
ProbeSpell == {"a1", "A2"}

\* line 920: mac.upper()
Upper(mac) == IF mac = "a1" THEN "A1" ELSE mac

UpperSet(S) == {Upper(m) : m \in S}

\* values of MAX_RECONNECT_PER_CYCLE (line 86 reads any integer; 4 is the
\* default)
ReconnectCaps == {0, 1, 4}

\* time_budget_seconds = None
NoBudget == -1

NoProbe == [pc |-> "idle", candidates |-> {}, connected |-> {}, budget |-> NoBudget,
            planned |-> {}, last0 |-> [a \in {} |-> 0],
            ordered |-> <<>>, i |-> 1, results |-> [a \in {} |-> FALSE],
            start |-> 0, attempts |-> <<>>, skipped |-> {}, stopped |-> FALSE,
            stoppedAt |-> 0]

\* faulty gate: the cooldown is not looked at
can_attempt_reconnection_BackoffOnly(last, nxt, mac, now) ==
    LET next_allowed == MapGet(nxt, mac, 0)
    IN  ~(next_allowed # 0 /\ now < next_allowed)

\* lines 771-806: _can_attempt_reconnection; last and nxt are
\* _last_connection_attempts and _next_probe_allowed_at
can_attempt_reconnection(last, nxt, mac, now) ==
    LET last_attempt == MapGet(last, mac, 0)
        next_allowed == MapGet(nxt, mac, 0)
    IN  /\ ~(now - last_attempt < RECONNECT_COOLDOWN)
        /\ ~(next_allowed # 0 /\ now < next_allowed)

\* the orders in which a set can be listed
Orders(S) ==
    {f \in [1..Cardinality(S) -> S] : \A x, y \in DOMAIN f : x # y => f[x] # f[y]}

\* sorted(candidates, key=last_attempt): the orders that are non-decreasing in
\* the last attempt; equal keys keep the set's iteration order, which is any
SortedOrders(S, last) ==
    {f \in Orders(S) :
        \A x, y \in DOMAIN f : x < y => MapGet(last, f[x], 0) <= MapGet(last, f[y], 0)}

\* faulty pick: the first max_count of the set's iteration order, unsorted
pick_reconnect_candidates_Unsorted(S, max_count, last) ==
    IF max_count <= 0
    THEN Orders(S)
    ELSE {SubSeq(f, 1, Min(max_count, Cardinality(S))) : f \in Orders(S)}

\* lines 839-851: _pick_reconnect_candidates: the lists it can return.  With
\* max_count <= 0 it returns list(candidates), the set's iteration order.
pick_reconnect_candidates(S, max_count, last) ==
    IF max_count <= 0
    THEN Orders(S)
    ELSE {SubSeq(f, 1, Min(max_count, Cardinality(S))) : f \in SortedOrders(S, last)}

\* faulty budget test: the loop goes on until the budget is overrun
BudgetSpent_Late(budget, elapsed) == budget # NoBudget /\ elapsed > budget

\* lines 939-942
BudgetSpent(budget, elapsed) == budget # NoBudget /\ elapsed >= budget

\* faulty probe result: a probe counts only if the disconnect worked too
ProbeSuccess_NeedsDisconnect(outcome, raised, disconnect_after, disconnected) ==
    outcome = "verified" /\ ~raised /\ (disconnect_after => disconnected)

\* lines 872-887: _probe_single_device's result: what connect_device returned,
\* False when it raised (lines 885-887)
ProbeSuccess(outcome, raised, disconnect_after, disconnected) ==
    outcome = "verified" /\ ~raised

\* lines 911-934: probe_devices up to the loop
ProbeCall(cands, connected_macs, budget) ==
    /\ probe.pc \in {"idle", "done"}
    /\ LET candidate_set == UpperSet(cands) \ UpperSet(connected_macs)
           max_candidates ==
               IF MAX_RECONNECT_PER_CYCLE > 0 THEN MAX_RECONNECT_PER_CYCLE ELSE 0
           p == [NoProbe EXCEPT !.candidates = cands, !.connected = connected_macs,
                                !.budget = budget, !.start = clock]
       IN  IF candidate_set = {}
           THEN probe' = [p EXCEPT !.pc = "done"]
           ELSE \E ordered_candidates \in
                    pick_reconnect_candidates(candidate_set, max_candidates,
                                              last_connection_attempts) :
                  probe' = [p EXCEPT !.pc = "loop", !.planned = candidate_set,
                                     !.last0 = last_connection_attempts,
                                     !.ordered = ordered_candidates]
    /\ UNCHANGED <<clock, breakerVars, linkVars, connVars, bk, loopVars, syncVars, runVars, adminVars, cleanupVars,
                   MAX_RECONNECT_PER_CYCLE, last_connection_attempts,
                   attempt_started>>

\* a call with any candidate list, any connected set of the snapshot, with
\* or without the time budget (presence_tracker.py lines 645-651 pass one)
ProbeCallStep ==
    /\ clock <= WallStart + MaxProbeSpan
    /\ \E cands \in SUBSET ProbeSpell, connected_macs \in SUBSET ProbeAddr,
          budget \in {NoBudget, PROBE_TIME_BUDGET_SECONDS} :
           ProbeCall(cands, connected_macs, budget)

\* lines 938-947 and 870-871: one turn of the loop up to the start of the
\* connect: the budget test, the gate, the attempt timestamp
ProbeNext ==
    /\ probe.pc = "loop"
    /\ IF probe.i > Len(probe.ordered)
       THEN /\ probe' = [probe EXCEPT !.pc = "done"]
            /\ UNCHANGED <<last_connection_attempts, attempt_started>>
       ELSE LET mac == probe.ordered[probe.i]
            IN  IF BudgetSpent(probe.budget, clock - probe.start)
                THEN /\ probe' = [probe EXCEPT !.pc = "done", !.stopped = TRUE,
                                               !.stoppedAt = clock]
                     /\ UNCHANGED <<last_connection_attempts, attempt_started>>
                ELSE IF ~can_attempt_reconnection(last_connection_attempts,
                                                  next_probe_allowed_at, mac, clock)
                THEN /\ probe' = [probe EXCEPT !.i = probe.i + 1,
                                               !.skipped = probe.skipped \cup {mac}]
                     /\ UNCHANGED <<last_connection_attempts, attempt_started>>
                ELSE /\ last_connection_attempts' =
                            MapPut(last_connection_attempts, mac, clock)
                     /\ attempt_started' = MapPut(attempt_started, mac, clock)
                     /\ probe' =
                            [probe EXCEPT !.pc = "connecting",
                               !.attempts = Append(probe.attempts,
                                  [mac |-> mac, at |-> clock,
                                   previous |-> MapGet(attempt_started, mac, 0),
                                   next_allowed |->
                                       MapGet(next_probe_allowed_at, mac, 0),
                                   outcome |-> "pending"])]
    /\ UNCHANGED <<clock, breakerVars, linkVars, connVars, bk, loopVars, syncVars, runVars, adminVars, cleanupVars,
                   MAX_RECONNECT_PER_CYCLE>>

\* what connect_device can answer: the verification's verdict (lines 629-655),
\* or False at once for an address the snapshot does not hold (lines 593-595)
ConnectOutcomes == {"verified", "unverified", "no path"}

\* lines 872-877 and 946-947: connect_device with the probe timeout, the
\* optional disconnect, and the entry in the result map.  dur is the time both
\* took; the failure bookkeeping is connect_device's (lines 642 and 654).
\* disconnect_after is the caller's argument, disconnected what
\* disconnect_device returned if it was called.
ProbeConnectReturns(outcome, dur, disconnect_after, disconnected) ==
    /\ probe.pc = "connecting"
    /\ outcome = "no path" => dur = 0
    /\ disconnected => outcome = "verified" /\ disconnect_after
    /\ LET mac == probe.ordered[probe.i]
           n == Len(probe.attempts)
           rst == reset_probe_failure(failed_connection_attempts,
                                      next_probe_allowed_at, mac)
           rec == record_probe_failure(failed_connection_attempts,
                                       next_probe_allowed_at, mac, clock + dur)
           raised == outcome = "unverified" /\ rec.raised
           success == ProbeSuccess(outcome, raised, disconnect_after, disconnected)
       IN  /\ clock' = clock + dur
           /\ failed_connection_attempts' =
                  CASE outcome = "verified" -> rst.failed
                    [] outcome = "unverified" -> rec.failed
                    [] OTHER -> failed_connection_attempts
           /\ next_probe_allowed_at' =
                  CASE outcome = "verified" -> rst.next
                    [] outcome = "unverified" -> rec.next
                    [] OTHER -> next_probe_allowed_at
           /\ probe' = [probe EXCEPT !.pc = "loop", !.i = probe.i + 1,
                                     !.results = MapPut(probe.results, mac, success),
                                     !.attempts[n].outcome = outcome]
    /\ UNCHANGED <<breakerVars, linkVars, conn, pc, connCalls, bk, loopVars,
                   syncVars, runVars, adminVars, cleanupVars, MAX_RECONNECT_PER_CYCLE, last_connection_attempts,
                   attempt_started>>

\* a connect answers at once or takes MaxAttemptDur
ProbeConnectStep ==
    \E outcome \in ConnectOutcomes, dur \in {0, MaxAttemptDur},
       disconnect_after \in BOOLEAN, disconnected \in BOOLEAN :
        ProbeConnectReturns(outcome, dur, disconnect_after, disconnected)

\* time between two probe_devices calls; the caller has taken the result map
ProbeWait(d) ==
    /\ probe.pc \in {"idle", "done"}
    /\ clock' = clock + d
    /\ probe' = NoProbe
    /\ UNCHANGED <<breakerVars, linkVars, connVars, bk, loopVars, syncVars, runVars, adminVars, cleanupVars,
                   MAX_RECONNECT_PER_CYCLE, last_connection_attempts,
                   attempt_started>>

\* the next call comes at once (an address attempted in the last one is then
\* in its cooldown) or a cooldown later
ProbeWaitStep ==
    /\ clock + RECONNECT_COOLDOWN <= WallStart + MaxProbeSpan
    /\ ProbeWait(RECONNECT_COOLDOWN)

\* ------------------------------------------------------------------------
\* The backoff expression alone
\* ------------------------------------------------------------------------
EvalBackoff ==
    /\ ~bk.done
    /\ bk' = [n |-> bk.n, done |-> TRUE, this |-> BackoffSeconds(bk.n),
              next |-> BackoffSeconds(bk.n + 1)]
    /\ UNCHANGED <<clock, breakerVars, linkVars, connVars, loopVars, syncVars, probeVars, runVars, adminVars, cleanupVars>>

NoBackoff == [n |-> 0, done |-> FALSE, this |-> [raised |-> FALSE, value |-> 0],
              next |-> [raised |-> FALSE, value |-> 0]]

\* ------------------------------------------------------------------------
\* Main loop: run_presence_tracker (presence_tracker.py)
\* ------------------------------------------------------------------------
\* the stages of check_and_update_devices (lines 562-795), each of which
\* may raise
CycleStages == <<"refresh", "snapshot", "query", "presence", "register",
                 "status", "cleanup_expired", "cleanup_stale">>

\* what a stage may raise: an Exception, or the KeyboardInterrupt of the
\* operator's stop
Raisable == {"Exception", "KeyboardInterrupt"}

NoRun == [pc |-> "loop", stage |-> 0, started |-> 0, failed |-> 0,
          error |-> "none", caughtAt |-> -1, stoppedBy |-> "none"]

\* faulty handler: the cycle's exceptions reach lines 899-901
CaughtAtCycle_None(e) == FALSE

\* line 889: except Exception around check_and_update_devices
CaughtAtCycle(e) == e = "Exception"

\* lines 881-887: the top of the while loop, a cycle begins
RunEnter ==
    /\ run.pc = "loop"
    /\ run.started < MaxRunCycles
    /\ run' = [run EXCEPT !.pc = "cycle", !.stage = 1, !.started = @ + 1,
                          !.error = "none"]
    /\ UNCHANGED <<clock, breakerVars, linkVars, connVars, bk, loopVars, syncVars,
                   probeVars, adminVars, cleanupVars>>

\* a stage of the cycle completes after d seconds and the next one begins
RunStage(d) ==
    /\ run.pc = "cycle"
    /\ run.stage < Len(CycleStages)
    /\ clock' = clock + d
    /\ run' = [run EXCEPT !.stage = @ + 1]
    /\ UNCHANGED <<breakerVars, linkVars, connVars, bk, loopVars, syncVars,
                   probeVars, adminVars, cleanupVars>>

RunStageStep == \E d \in 0..MaxStageDur : RunStage(d)

\* line 888 returns: the last stage completes
RunReturn ==
    /\ run.pc = "cycle"
    /\ run.stage = Len(CycleStages)
    /\ run' = [run EXCEPT !.pc = "sleep", !.stage = 0]
    /\ UNCHANGED <<clock, breakerVars, linkVars, connVars, bk, loopVars, syncVars,
                   probeVars, adminVars, cleanupVars>>

\* lines 887-901: a stage raises e.  Line 889 catches it and the loop goes on
\* to line 895, or it leaves the while loop
RunRaise(e) ==
    /\ run.pc = "cycle"
    /\ run' = IF CaughtAtCycle(e)
              THEN [run EXCEPT !.pc = "sleep", !.stage = 0, !.failed = @ + 1,
                               !.error = e, !.caughtAt = clock]
              ELSE [run EXCEPT !.pc = "stopped", !.stage = 0, !.error = e,
                               !.stoppedBy = e]
    /\ UNCHANGED <<clock, breakerVars, linkVars, connVars, bk, loopVars, syncVars,
                   probeVars, adminVars, cleanupVars>>

RunRaiseStep == \E e \in Raisable : RunRaise(e)

\* line 895: time.sleep(POLLING_INTERVAL)
RunSleep ==
    /\ run.pc = "sleep"
    /\ clock' = clock + POLLING_INTERVAL
    /\ run' = [run EXCEPT !.pc = "loop"]
    /\ UNCHANGED <<breakerVars, linkVars, connVars, bk, loopVars, syncVars,
                   probeVars, adminVars, cleanupVars>>

\* lines 897-898: the operator's stop arrives during the sleep
RunInterrupt ==
    /\ run.pc = "sleep"
    /\ run' = [run EXCEPT !.pc = "stopped", !.stoppedBy = "KeyboardInterrupt"]
    /\ UNCHANGED <<clock, breakerVars, linkVars, connVars, bk, loopVars, syncVars,
                   probeVars, adminVars, cleanupVars>>

\* ------------------------------------------------------------------------
\* Administrative interface: forget_device (web_server.py)
\* ------------------------------------------------------------------------
NoForget == [mac |-> None, before |-> {}, after |-> {}, success |-> FALSE,
             http |-> 0, prev |-> [mac |-> None, success |-> FALSE, after |-> {}]]

\* faulty removal: an address without a device path counts as removed
remove_device_Blind(known, mac, snapOk, adapterOk, removeOk) ==
    LET snap == IF snapOk THEN known ELSE {}
    IN  IF Upper(mac) \notin snap THEN [success |-> TRUE, after |-> known]
        ELSE IF ~adapterOk \/ ~removeOk THEN [success |-> FALSE, after |-> known]
        ELSE [success |-> TRUE, after |-> known \ {Upper(mac)}]

\* bluetooth_scanner lines 726-753 without a snapshot argument: a fresh
\* snapshot (empty when it cannot be read, line 179), the device path of
\* mac.upper(), the adapter, then RemoveDevice; False without a path, without
\* an adapter or when RemoveDevice raises
remove_device(known, mac, snapOk, adapterOk, removeOk) ==
    LET snap == IF snapOk THEN known ELSE {}
    IN  IF Upper(mac) \notin snap THEN [success |-> FALSE, after |-> known]
        ELSE IF ~adapterOk \/ ~removeOk THEN [success |-> FALSE, after |-> known]
        ELSE [success |-> TRUE, after |-> known \ {Upper(mac)}]

\* web_server lines 14-26: POST /api/forget-device with macAddress mac
ForgetDevice(mac, snapOk, adapterOk, removeOk) ==
    /\ LET r == remove_device(bluez, mac, snapOk, adapterOk, removeOk)
       IN  /\ bluez' = r.after
           /\ forget' = [mac |-> mac, before |-> bluez, after |-> r.after,
                         success |-> r.success,
                         http |-> IF r.success THEN 200 ELSE 500,
                         prev |-> [mac |-> forget.mac, success |-> forget.success,
                                   after |-> forget.after]]
    /\ UNCHANGED <<clock, breakerVars, linkVars, connVars, bk, loopVars, syncVars,
                   probeVars, runVars, cleanupVars>>

ForgetStep ==
    \E mac \in ProbeSpell, snapOk \in BOOLEAN, adapterOk \in BOOLEAN,
       removeOk \in BOOLEAN :
        ForgetDevice(mac, snapOk, adapterOk, removeOk)

\* web_server lines 19-20: a request without macAddress is answered 400 and
\* remove_device is not called
ForgetNothing ==
    /\ forget' = [NoForget EXCEPT !.http = 400,
                      !.before = bluez, !.after = bluez,
                      !.prev = [mac |-> forget.mac, success |-> forget.success,
                                after |-> forget.after]]
    /\ UNCHANGED <<clock, breakerVars, linkVars, connVars, bk, loopVars, syncVars,
                   probeVars, runVars, bluez, cleanupVars>>

\* BlueZ discovers or pairs a device
BluezAppears(a) ==
    /\ a \notin bluez
    /\ bluez' = bluez \cup {a}
    /\ UNCHANGED <<clock, breakerVars, linkVars, connVars, bk, loopVars, syncVars,
                   probeVars, runVars, forget, cleanupVars>>

BluezAppearsStep == \E a \in ProbeAddr : BluezAppears(a)

\* ------------------------------------------------------------------------
\* Expiry cleanup: cleanup_expired_devices (presence_tracker.py)
\* ------------------------------------------------------------------------
NoExpiry == [result |-> "none", deleted |-> <<>>, ops |-> <<>>, raised |-> {}]

\* what disconnect_device comes to: True, False (not verified, or no device
\* path), or an exception of the bluetoothctl fallback that
\* _run_bluetoothctl_operation does not catch (bluetooth_scanner lines 466-476)
DisconnectOutcomes == {"verified", "unverified", "raised"}

\* faulty loop: an address whose disconnect was not verified is left paired
RemovesAfter_Verified(disc) == disc = "verified"

\* lines 299-309: remove_device follows disconnect_device inside one try: it
\* runs unless disconnect_device raised
RemovesAfter(disc) == disc # "raised"

\* lines 299-309: the link-layer calls of the loop over deleted_macs, in order
RECURSIVE ExpiryOps(_, _)
ExpiryOps(macs, disc) ==
    IF macs = <<>> THEN <<>>
    ELSE LET m == Head(macs)
         IN  (IF RemovesAfter(disc[m])
              THEN << <<"disconnect", m>>, <<"remove", m>> >>
              ELSE << <<"disconnect", m>> >>)
             \o ExpiryOps(Tail(macs), disc)

\* lines 276-311: cleanup_expired_devices.  macs is the store's deletedMacs
\* (deletedCount being their number), disc what each disconnect_device comes
\* to and removeOk whether RemoveDevice succeeds in this call
ExpiryCleanup(o, macs, disc, removeOk) ==
    /\ clock <= MaxClock
    /\ BreakerCall(o.outcome, 0)
    /\ IF call'.result = None
       THEN /\ expiry' = [NoExpiry EXCEPT !.result = "False"]
            /\ UNCHANGED <<bluez, failed_registrations>>
       ELSE LET S == {macs[i] : i \in DOMAIN macs}
                tried == {m \in S : RemovesAfter(disc[m])}
            IN  /\ expiry' = [result |-> "True", deleted |-> macs,
                              ops |-> ExpiryOps(macs, disc),
                              raised |-> {m \in S : disc[m] = "raised"}]
                /\ bluez' = IF removeOk THEN bluez \ {Upper(m) : m \in tried}
                            ELSE bluez
                /\ failed_registrations' = failed_registrations \ tried
    /\ UNCHANGED <<store, device_first_seen, last_discovery_refresh_time,
                   last_rssi_refresh_time, cycle_now, snapshot, devices, lpc,
                   regConnected, regInRange, firstObserved, earliestInRange, removed>>
    /\ UNCHANGED <<linkVars, connVars, bk, syncVars, probeVars, runVars, forget>>

ExpiryStep ==
    \E o \in StoreOutcomes, S \in SUBSET ProbeSpell :
        \E macs \in Orders(S), disc \in [S -> DisconnectOutcomes],
           removeOk \in BOOLEAN :
            ExpiryCleanup(o, macs, disc, removeOk)

\* ------------------------------------------------------------------------
\* Specifications
\* ------------------------------------------------------------------------
BreakerIdle ==
    /\ convex_consecutive_timeouts = 0
    /\ convex_circuit_open_until = 0
    /\ call = NoCall
    /\ prevCall = Short(NoCall)

ConnIdle ==
    /\ pc = "idle"
    /\ conn = NoConn
    /\ connCalls = 0

LinkIdle ==
    /\ linkConnected = {}
    /\ lockHeld = FALSE

NoFailures ==
    /\ failed_connection_attempts = [a \in {} |-> 0]
    /\ next_probe_allowed_at = [a \in {} |-> 0]

LoopIdle ==
    /\ store = {}
    /\ device_first_seen = [a \in {} |-> 0]
    /\ failed_registrations = {}
    /\ last_discovery_refresh_time = 0
    /\ last_rssi_refresh_time = 0
    /\ cycle_now = 0
    /\ snapshot = NoSnapshot
    /\ devices = {}
    /\ lpc = "sleeping"
    /\ regConnected = {}
    /\ regInRange = {}
    /\ firstObserved = {}
    /\ earliestInRange = [a \in {} |-> 0]
    /\ removed = {}

ProbeIdle ==
    /\ MAX_RECONNECT_PER_CYCLE = 4
    /\ last_connection_attempts = [a \in {} |-> 0]
    /\ attempt_started = [a \in {} |-> 0]
    /\ probe = NoProbe

RunIdle == run = NoRun

ExpiryIdle == expiry = NoExpiry

AdminIdle ==
    /\ bluez = {}
    /\ forget = NoForget

SyncIdle ==
    /\ store_rec = [a \in {} |-> 0]
    /\ recently_seen_devices = [a \in {} |-> 0]
    /\ device_previous_status = [a \in {} |-> 0]
    /\ last_full_probe_time = 0
    /\ devices_rec = [a \in {} |-> 0]
    /\ present_set = {}
    /\ todo = <<>>
    /\ asked = {}
    /\ sent = {}
    /\ replied = {}
    /\ unlogged = [a \in {} |-> 0]
    /\ presenceObs = NoPresenceObs
    /\ late = NoLate

InitBreaker ==
    /\ clock = 0
    /\ BreakerIdle
    /\ LinkIdle
    /\ ConnIdle
    /\ NoFailures
    /\ bk = NoBackoff
    /\ LoopIdle
    /\ SyncIdle
    /\ RunIdle
    /\ AdminIdle
    /\ ExpiryIdle
    /\ ProbeIdle

NextBreaker == ConvexCall \/ Sleep

SpecBreaker == InitBreaker /\ [][NextBreaker]_vars

\* The controller starts with any set of addresses already in backoff: none,
\* or a long run of consecutive failures whose last delay has elapsed.
InitConnect ==
    /\ clock = 0
    /\ BreakerIdle
    /\ ConnIdle
    /\ LinkIdle
    /\ \E failing \in SUBSET Addr :
        /\ failed_connection_attempts = [a \in failing |-> FLOAT_MAX_EXP]
        /\ next_probe_allowed_at = [a \in failing |-> 0]
    /\ bk = NoBackoff
    /\ LoopIdle
    /\ SyncIdle
    /\ RunIdle
    /\ AdminIdle
    /\ ExpiryIdle
    /\ ProbeIdle

NextConnect ==
    \/ StartCall
    \/ PrimaryStep
    \/ FallbackStep
    \/ VerifyStep
    \/ SnapshotStep
    \/ LinkStep
    \/ WorkerFinishes

SpecConnect == InitConnect /\ [][NextConnect]_vars

InitBackoff ==
    /\ clock = 0
    /\ BreakerIdle
    /\ LinkIdle
    /\ ConnIdle
    /\ NoFailures
    /\ bk \in {[NoBackoff EXCEPT !.n = n] : n \in 1..MaxFailures}
    /\ LoopIdle
    /\ SyncIdle
    /\ RunIdle
    /\ AdminIdle
    /\ ExpiryIdle
    /\ ProbeIdle

NextBackoff == EvalBackoff

SpecBackoff == InitBackoff /\ [][NextBackoff]_vars

\* The loop starts with the module state as loaded and no record upstream.
InitLoop ==
    /\ clock = WallStart
    /\ BreakerIdle
    /\ LinkIdle
    /\ ConnIdle
    /\ NoFailures
    /\ bk = NoBackoff
    /\ LoopIdle
    /\ SyncIdle
    /\ RunIdle
    /\ AdminIdle
    /\ ExpiryIdle
    /\ ProbeIdle

NextLoop ==
    \/ BeginStep
    \/ QueryStep
    \/ RegisterConnectedStep
    \/ RegisterInRangeStep
    \/ CleanupStaleStep
    \/ EndStep

SpecLoop == InitLoop /\ [][NextLoop]_vars

\* The loop starts with the module state as loaded; the store holds records
\* of registered devices.
InitSync ==
    /\ clock = WallStart
    /\ BreakerIdle
    /\ LinkIdle
    /\ ConnIdle
    /\ NoFailures
    /\ bk = NoBackoff
    /\ device_first_seen = [a \in {} |-> 0]
    /\ failed_registrations = {}
    /\ last_discovery_refresh_time = 0
    /\ last_rssi_refresh_time = 0
    /\ cycle_now = 0
    /\ snapshot = NoSnapshot
    /\ devices = {}
    /\ lpc = "sleeping"
    /\ regConnected = {}
    /\ regInRange = {}
    /\ firstObserved = {}
    /\ earliestInRange = [a \in {} |-> 0]
    /\ removed = {}
    /\ ProbeIdle
    /\ RunIdle
    /\ AdminIdle
    /\ ExpiryIdle
    /\ store \in SUBSET SyncAddr
    /\ store_rec \in [store -> {[status |-> st, pending |-> FALSE] : st \in Statuses}]
    /\ recently_seen_devices = [a \in {} |-> 0]
    /\ device_previous_status = [a \in {} |-> 0]
    /\ last_full_probe_time = 0
    /\ devices_rec = [a \in {} |-> 0]
    /\ present_set = {}
    /\ todo = <<>>
    /\ asked = {}
    /\ sent = {}
    /\ replied = {}
    /\ unlogged = [a \in {} |-> 0]
    /\ presenceObs = NoPresenceObs
    /\ late = NoLate

NextSync ==
    \/ SyncBeginStep
    \/ SyncQueryStep
    \/ SyncPresenceStep
    \/ SyncRegisterStep
    \/ SyncRegisterDone
    \/ SyncStatusStep
    \/ SyncAttendanceStep
    \/ SyncCleanupExpiredStep
    \/ SyncCleanupStaleStep
    \/ SyncEnd

SpecSync == InitSync /\ [][NextSync]_vars

\* what the store may hold in the presence specification: registered and
\* pending records
PresRecords == {[status |-> st, pending |-> pd] : st \in Statuses, pd \in BOOLEAN}

\* The presence pass after earlier cycles: a last-seen time is one cycle or
\* exactly the presence TTL old, the last full probe ran never or one cycle
\* short of the probe interval ago, and discovery was refreshed never or one
\* refresh interval ago (its scan ending IN_RANGE_SCAN_SECONDS later).
InitPresence ==
    /\ clock = WallStart
    /\ BreakerIdle
    /\ LinkIdle
    /\ ConnIdle
    /\ NoFailures
    /\ bk = NoBackoff
    /\ device_first_seen = [a \in {} |-> 0]
    /\ failed_registrations = {}
    /\ \E refreshed \in BOOLEAN :
        /\ last_discovery_refresh_time =
               IF refreshed THEN WallStart - DISCOVERY_REFRESH_INTERVAL_SECONDS ELSE 0
        /\ last_rssi_refresh_time =
               IF refreshed
               THEN WallStart - DISCOVERY_REFRESH_INTERVAL_SECONDS + IN_RANGE_SCAN_SECONDS
               ELSE 0
    /\ cycle_now = 0
    /\ snapshot = NoSnapshot
    /\ devices = {}
    /\ lpc = "sleeping"
    /\ regConnected = {}
    /\ regInRange = {}
    /\ firstObserved = {}
    /\ earliestInRange = [a \in {} |-> 0]
    /\ removed = {}
    /\ ProbeIdle
    /\ RunIdle
    /\ AdminIdle
    /\ ExpiryIdle
    /\ store \in SUBSET SyncAddr
    /\ store_rec \in [store -> PresRecords]
    /\ \E S \in SUBSET SyncAddr :
        recently_seen_devices \in
            [S -> {WallStart - PRESENT_TTL_SECONDS, WallStart - POLLING_INTERVAL}]
    /\ device_previous_status = [a \in {} |-> 0]
    /\ last_full_probe_time \in
           {0, WallStart - FULL_PROBE_INTERVAL_SECONDS + POLLING_INTERVAL}
    /\ devices_rec = [a \in {} |-> 0]
    /\ present_set = {}
    /\ todo = <<>>
    /\ asked = {}
    /\ sent = {}
    /\ replied = {}
    /\ unlogged = [a \in {} |-> 0]
    /\ presenceObs = NoPresenceObs
    /\ late = NoLate

NextPresence ==
    \/ PresBeginStep
    \/ SyncQueryStep
    \/ SyncPresenceStep
    \/ PresRest
    \/ SyncEnd

SpecPresence == InitPresence /\ [][NextPresence]_vars

\* The reconciliation loop from the cycle on from which the store answers
\* every call and the derived presence stays as it is: a1 is connected in
\* every snapshot, a2 is not seen, no probe succeeds.
ConvergeSnapshot ==
    [present |-> {"a1"}, connected |-> {"a1"}, paired |-> {"a1"},
     trusted |-> {}, signal |-> {}, alias |-> {"a1"}, name |-> {"a1"}]

Answered == [outcome |-> "ok", applied |-> TRUE]

\* the status mutations an earlier cycle may have left under way
LateUpdates(known) == {[mac |-> m, status |-> st] : m \in known, st \in Statuses}

\* It starts with any records in the store, and with any of the status
\* updates of earlier cycles that timed out at the client (lines 161-178: the
\* executor's thread goes on with the mutation) still to be applied.
InitConverge ==
    /\ clock = WallStart
    /\ BreakerIdle
    /\ LinkIdle
    /\ ConnIdle
    /\ NoFailures
    /\ bk = NoBackoff
    /\ device_first_seen = [a \in {} |-> 0]
    /\ failed_registrations = {}
    /\ last_discovery_refresh_time = 0
    /\ last_rssi_refresh_time = 0
    /\ cycle_now = 0
    /\ snapshot = NoSnapshot
    /\ devices = {}
    /\ lpc = "sleeping"
    /\ regConnected = {}
    /\ regInRange = {}
    /\ firstObserved = {}
    /\ earliestInRange = [a \in {} |-> 0]
    /\ removed = {}
    /\ ProbeIdle
    /\ RunIdle
    /\ AdminIdle
    /\ ExpiryIdle
    /\ store \in SUBSET SyncAddr
    /\ store_rec \in [store -> PresRecords]
    /\ recently_seen_devices = [a \in {} |-> 0]
    /\ device_previous_status = [a \in {} |-> 0]
    /\ last_full_probe_time = 0
    /\ devices_rec = [a \in {} |-> 0]
    /\ present_set = {}
    /\ todo = <<>>
    /\ asked = {}
    /\ sent = {}
    /\ replied = {}
    /\ unlogged = [a \in {} |-> 0]
    /\ presenceObs = NoPresenceObs
    /\ \E P \in SUBSET LateUpdates(store) : late = [pending |-> P, landed |-> {}]

\* the store applies a mutation whose caller gave up on it, within
\* MaxLateSpan of the start
LateApply(u) ==
    /\ u \in late.pending
    /\ clock <= WallStart + MaxLateSpan
    /\ late' = [pending |-> late.pending \ {u}, landed |-> late.landed \cup {u}]
    /\ store_rec' = IF u.mac \in DOMAIN store_rec
                    THEN [store_rec EXCEPT ![u.mac].status = u.status]
                    ELSE store_rec
    /\ UNCHANGED <<clock, breakerVars, linkVars, connVars, bk, loopVars,
                   recently_seen_devices, device_previous_status,
                   last_full_probe_time, devices_rec, present_set, todo, asked,
                   sent, replied, unlogged, presenceObs, probeVars, runVars,
                   adminVars, cleanupVars>>

LateApplyStep == \E u \in late.pending : LateApply(u)

ConvergeBegin == \E refreshOk \in BOOLEAN : SyncBegin(refreshOk, ConvergeSnapshot)

ConvergeRegister == \E st \in Statuses : SyncRegister(Answered, st)

\* the loop sleeps and goes on, up to the end of the run
ConvergeEnd ==
    /\ clock + POLLING_INTERVAL <= WallStart + MaxConvergeSpan
    /\ SyncEnd

ConvergeLoop ==
    \/ ConvergeBegin
    \/ SyncQuery(Answered)
    \/ SyncPresence({}, {})
    \/ ConvergeRegister
    \/ SyncRegisterDone
    \/ SyncStatus(Answered)
    \/ SyncAttendance(Answered)
    \/ SyncCleanupExpired(Answered)
    \/ SyncCleanupStale(Answered)
    \/ ConvergeEnd

NextConverge == ConvergeLoop \/ LateApplyStep

\* the loop takes its next step; a mutation under way lands or is lost
SpecConverge == InitConverge /\ [][NextConverge]_vars /\ WF_vars(ConvergeLoop)

\* The probe scheduler alone.  It starts with no history; or after a call
\* that probed A2 with success and then A1, whose fourth failure in a row it
\* was (A1's attempt began RECONNECT_COOLDOWN ago and its backoff of 40 s has
\* 15 s left); or after FLOAT_MAX_EXP failed probes of A1 (the backoff, at its
\* cap, has just run out).
ProbeHistories ==
    {[failed |-> [a \in {} |-> 0], next |-> [a \in {} |-> 0],
      last |-> [a \in {} |-> 0]],
     [failed |-> [a \in {"A1"} |-> 4], next |-> [a \in {"A1"} |-> WallStart + 15],
      last |-> [a \in ProbeAddr |->
                   IF a = "A1" THEN WallStart - RECONNECT_COOLDOWN
                   ELSE WallStart - RECONNECT_COOLDOWN - MaxAttemptDur]],
     [failed |-> [a \in {"A1"} |-> FLOAT_MAX_EXP],
      next |-> [a \in {"A1"} |-> WallStart],
      last |-> [a \in {"A1"} |-> WallStart - PROBE_BACKOFF_MAX_SECONDS
                                            - MaxAttemptDur]]}

InitProbe ==
    /\ clock = WallStart
    /\ BreakerIdle
    /\ LinkIdle
    /\ ConnIdle
    /\ bk = NoBackoff
    /\ LoopIdle
    /\ SyncIdle
    /\ RunIdle
    /\ AdminIdle
    /\ ExpiryIdle
    /\ MAX_RECONNECT_PER_CYCLE \in ReconnectCaps
    /\ probe = NoProbe
    /\ \E h \in ProbeHistories :
        /\ failed_connection_attempts = h.failed
        /\ next_probe_allowed_at = h.next
        /\ last_connection_attempts = h.last
        /\ attempt_started = h.last

NextProbe ==
    \/ ProbeCallStep
    \/ ProbeNext
    \/ ProbeConnectStep
    \/ ProbeWaitStep

SpecProbe == InitProbe /\ [][NextProbe]_vars

\* The probe scheduler called again and again on the same candidates, every
\* connect failing.  The cap is below the number of candidates.  It starts
\* with one of the histories above, or with A1 the oldest attempt and at the
\* start of a capped backoff (its seventh failure in a row, the attempt
\* having begun RECONNECT_COOLDOWN + MaxAttemptDur ago) while A2, attempted
\* after it, is still in its cooldown.
StarveHistories ==
    ProbeHistories \cup
    {[failed |-> [a \in ProbeAddr |-> IF a = "A1" THEN 7 ELSE 1],
      next |-> [a \in ProbeAddr |->
                   IF a = "A1"
                   THEN WallStart - RECONNECT_COOLDOWN + PROBE_BACKOFF_MAX_SECONDS
                   ELSE WallStart - PROBE_BACKOFF_BASE_SECONDS],
      last |-> [a \in ProbeAddr |->
                   IF a = "A1"
                   THEN WallStart - RECONNECT_COOLDOWN - MaxAttemptDur
                   ELSE WallStart - 2 * PROBE_BACKOFF_BASE_SECONDS]]}

InitStarve ==
    /\ clock = WallStart
    /\ BreakerIdle
    /\ LinkIdle
    /\ ConnIdle
    /\ bk = NoBackoff
    /\ LoopIdle
    /\ SyncIdle
    /\ RunIdle
    /\ AdminIdle
    /\ ExpiryIdle
    /\ MAX_RECONNECT_PER_CYCLE = 1
    /\ probe = NoProbe
    /\ \E h \in StarveHistories :
        /\ failed_connection_attempts = h.failed
        /\ next_probe_allowed_at = h.next
        /\ last_connection_attempts = h.last
        /\ attempt_started = h.last

\* presence_tracker.py lines 645-651: the next call, on the same candidates
\* and with the tracker's time budget
StarveCall ==
    /\ probe.pc = "idle"
    /\ clock <= WallStart + MaxStarveSpan
    /\ ProbeCall(ProbeSpell, {}, PROBE_TIME_BUDGET_SECONDS)

\* every connect fails: after MaxAttemptDur it is not verified, or the
\* snapshot does not hold the device and it returns at once
StarveConnect ==
    \E outcome \in {"unverified", "no path"} :
        ProbeConnectReturns(outcome,
                            IF outcome = "no path" THEN 0 ELSE MaxAttemptDur,
                            TRUE, FALSE)

\* the time to the next call: a cooldown or a full-probe interval
StarveWait ==
    /\ probe.pc = "done"
    /\ \E d \in {RECONNECT_COOLDOWN, FULL_PROBE_INTERVAL_SECONDS} :
           /\ clock + d <= WallStart + MaxStarveSpan
           /\ ProbeWait(d)

NextStarve ==
    \/ StarveCall
    \/ ProbeNext
    \/ StarveConnect
    \/ StarveWait

\* the tracker's loop goes on: a call that can take its next step takes it,
\* and the next cycle comes
SpecStarve == InitStarve /\ [][NextStarve]_vars /\ WF_vars(NextStarve)

\* The main loop starts at the top of the while loop.
InitRun == InitLoop

NextRun ==
    \/ RunEnter
    \/ RunStageStep
    \/ RunReturn
    \/ RunRaiseStep
    \/ RunSleep
    \/ RunInterrupt

SpecRun == InitRun /\ [][NextRun]_vars

\* The web server starts with any set of devices known to BlueZ.
InitForget ==
    /\ clock = WallStart
    /\ BreakerIdle
    /\ LinkIdle
    /\ ConnIdle
    /\ NoFailures
    /\ bk = NoBackoff
    /\ LoopIdle
    /\ SyncIdle
    /\ ProbeIdle
    /\ RunIdle
    /\ bluez \in SUBSET ProbeAddr
    /\ forget = NoForget
    /\ ExpiryIdle

\* The expiry cleanup alone, with any set of devices known to BlueZ and of
\* failed registrations.
InitExpiry ==
    /\ clock = 0
    /\ BreakerIdle
    /\ LinkIdle
    /\ ConnIdle
    /\ NoFailures
    /\ bk = NoBackoff
    /\ store = {}
    /\ device_first_seen = [a \in {} |-> 0]
    /\ failed_registrations \in SUBSET ProbeSpell
    /\ last_discovery_refresh_time = 0
    /\ last_rssi_refresh_time = 0
    /\ cycle_now = 0
    /\ snapshot = NoSnapshot
    /\ devices = {}
    /\ lpc = "sleeping"
    /\ regConnected = {}
    /\ regInRange = {}
    /\ firstObserved = {}
    /\ earliestInRange = [a \in {} |-> 0]
    /\ removed = {}
    /\ SyncIdle
    /\ ProbeIdle
    /\ RunIdle
    /\ bluez \in SUBSET ProbeAddr
    /\ forget = NoForget
    /\ ExpiryIdle

NextExpiry ==
    \/ ExpiryStep
    \/ BluezAppearsStep

SpecExpiry == InitExpiry /\ [][NextExpiry]_vars

NextForget ==
    \/ ForgetStep
    \/ ForgetNothing
    \/ BluezAppearsStep

SpecForget == InitForget /\ [][NextForget]_vars

\* ------------------------------------------------------------------------
\* Properties of the circuit breaker (checked under SpecBreaker)
\* ------------------------------------------------------------------------
Made(c) == c.at >= 0
Tripping(c) == /\ c.outcome = "timeout"
               /\ c.countBefore + 1 >= MAX_CONVEX_CONSECUTIVE_TIMEOUTS

\* C1: while the circuit breaker is open (now < circuitOpenUntil) a call to
\* _submit_convex_call returns None, fn is not submitted to the pool, and the
\* call leaves the clock, the counter and the open-until instant untouched.
C1_OpenCircuitRejects ==
    (Made(call) /\ call.at < call.openBefore) =>
        /\ ~call.dispatched
        /\ call.result = None
        /\ call.end = call.at
        /\ convex_circuit_open_until = call.openBefore
        /\ convex_consecutive_timeouts = call.countBefore

C1_Witness == Made(call) /\ call.at < call.openBefore /\ call.outcome = "skipped"

\* C2: the open-until instant changes exactly in a dispatched call that times
\* out and whose timeout brings the counter to the threshold or beyond: it is
\* then the end of that call + CONVEX_CIRCUIT_OPEN_SECONDS, the circuit is
\* open, and a next call made inside that window is not dispatched; any other
\* call leaves the instant as it was, and a dispatched one leaves the circuit
\* closed.
C2_OpensAtThreshold ==
    Made(call) =>
        /\ (call.dispatched /\ Tripping(call)) =>
               /\ convex_circuit_open_until = call.end + CONVEX_CIRCUIT_OPEN_SECONDS
               /\ call.end < convex_circuit_open_until
        /\ ~(call.dispatched /\ Tripping(call)) =>
               /\ convex_circuit_open_until = call.openBefore
               /\ call.dispatched => call.end >= convex_circuit_open_until
        /\ (Tripping(prevCall) /\ prevCall.end >= 0
              /\ call.at < prevCall.end + CONVEX_CIRCUIT_OPEN_SECONDS) =>
               ~call.dispatched

C2_Witness ==
    /\ Tripping(prevCall) /\ prevCall.countBefore = MAX_CONVEX_CONSECUTIVE_TIMEOUTS - 1
    /\ call.outcome = "skipped"
    /\ call.at = prevCall.end

\* C3: a dispatched call that completes without timeout leaves the counter at
\* zero and the circuit as it was (closed); success returns the result, an
\* error returns None; a timeout that follows such a call counts as the first.
C3_NonTimeoutResets ==
    /\ (call.dispatched /\ call.outcome \in {"ok", "error"}) =>
           /\ convex_consecutive_timeouts = 0
           /\ call.result = (IF call.outcome = "ok" THEN Value ELSE None)
           /\ convex_circuit_open_until = call.openBefore
           /\ call.end >= convex_circuit_open_until
    /\ (call.dispatched /\ call.outcome = "timeout"
          /\ prevCall.outcome \in {"ok", "error"}) =>
           /\ convex_consecutive_timeouts = 1
           /\ call.end >= convex_circuit_open_until

\* timeout, timeout, error, timeout
C3_Witness ==
    /\ prevCall.outcome = "error" /\ prevCall.countBefore = 2
    /\ call.dispatched /\ call.outcome = "timeout"
    /\ convex_consecutive_timeouts = 1

\* C4: a call is dispatched if and only if it starts at or after the open-until
\* instant, whatever the counter says: no half-open state, no probe call.
C4_DispatchedOnceWindowPassed ==
    Made(call) => (call.dispatched <=> call.at >= call.openBefore)

C4_Witness ==
    /\ call.dispatched
    /\ call.openBefore > 0
    /\ call.at = call.openBefore
    /\ call.countBefore >= MAX_CONVEX_CONSECUTIVE_TIMEOUTS

\* ------------------------------------------------------------------------
\* Properties of the connection controller (checked under SpecConnect)
\* ------------------------------------------------------------------------
\* the call returned a boolean to its caller
Returned(c) == c.result \in {"true", "false"}

\* the post-condition the call is after, as a property value
Wanted(c) == IF c.op = Connect THEN "true" ELSE "false"

\* the verification saw the wanted state: in one of its live reads or, those
\* exhausted, in the check of a fresh snapshot
Agrees(c) ==
    \/ \E i \in 1..Len(c.reads) : c.reads[i] = Wanted(c)
    \/ c.fresh = Wanted(c)

\* the delay the specification prescribes after `failures` consecutive
\* failures: min(base * 2^(failures-1), cap)
PrescribedDelay(failures) ==
    ScaledCapped(PROBE_BACKOFF_BASE_SECONDS, failures - 1)

\* C5: when connect_device has returned true, the live Connected property of
\* that address, read at the moment of the return, is true.
C5_TrueMeansConnected ==
    (conn.op = Connect /\ conn.result = "true") => conn.liveAtReturn

C5_Witness ==
    /\ conn.op = Connect /\ conn.result = "true"
    /\ conn.dbus = "hard timeout" /\ conn.bt = "fail"
    /\ ~conn.snapConnected

\* C6: the boolean returned by connect_device and disconnect_device, once the
\* link handle is resolved, is true exactly when the verification saw the
\* wanted state (connected for connect, not connected for disconnect), whatever
\* the primitives reported and whatever the caller's snapshot said; and a
\* snapshot check that reports connected reflects the live state.
C6_ResultIsVerification ==
    (conn.resolved /\ Returned(conn)) =>
        /\ conn.result = "true" <=> Agrees(conn)
        /\ conn.fresh = "true" => conn.liveAtReturn

C6_Witness ==
    /\ conn.op = Connect /\ conn.resolved
    /\ conn.dbus = "ok" /\ conn.snapConnected
    /\ conn.result = "false"

\* C7: a connect_device call that resolves the link handle and ends with the
\* verification failing returns false, leaves the address's failure count one
\* above what it was and its next-allowed-attempt time at
\* now + min(base * 2^(failures-1), cap); no connect that returns false
\* lowers the count.
C7_FailureRecorded ==
    /\ (conn.op = Connect /\ conn.resolved /\ conn.result # "pending"
          /\ conn.bt # "os error" /\ ~Agrees(conn)) =>
           /\ conn.result = "false"
           /\ MapGet(failed_connection_attempts, conn.mac, 0)
                  = conn.failuresBefore + 1
           /\ conn.mac \in DOMAIN next_probe_allowed_at
           /\ next_probe_allowed_at[conn.mac]
                  = conn.end + PrescribedDelay(conn.failuresBefore + 1)
    /\ (conn.op = Connect /\ conn.result = "false") =>
           MapGet(failed_connection_attempts, conn.mac, 0) >= conn.failuresBefore

\* the same, for calls that start below the count at which the backoff
\* expression overflows
C7_HoldsBelowOverflow == conn.failuresBefore < FLOAT_MAX_EXP => C7_FailureRecorded

\* C9: when connect_device has returned true the address has neither a
\* failure count nor a next-allowed-attempt time, whatever count it had; and a
\* failure of an address without a count is the first: the delay is the base.
C9_SuccessClearsBackoff ==
    /\ (conn.op = Connect /\ conn.result = "true") =>
           /\ conn.mac \notin DOMAIN failed_connection_attempts
           /\ conn.mac \notin DOMAIN next_probe_allowed_at
    /\ (conn.op = Connect /\ conn.resolved /\ conn.result = "false"
          /\ conn.failuresBefore = 0) =>
           /\ failed_connection_attempts[conn.mac] = 1
           /\ next_probe_allowed_at[conn.mac]
                  = conn.end + PROBE_BACKOFF_BASE_SECONDS

C9_Witness ==
    /\ conn.op = Connect /\ conn.result = "true"
    /\ conn.failuresBefore > 0

\* ------------------------------------------------------------------------
\* Property of the backoff expression (checked under SpecBackoff)
\* ------------------------------------------------------------------------
\* C8: for every n >= 1 the delay after the n-th consecutive failure is
\* min(base * 2^(n-1), cap): it exists, does not exceed the cap and is not
\* above the delay after the (n+1)-th.
C8_BackoffMonotoneCapped ==
    bk.done =>
        /\ ~bk.this.raised /\ ~bk.next.raised
        /\ bk.this.value = PrescribedDelay(bk.n)
        /\ bk.this.value <= PROBE_BACKOFF_MAX_SECONDS
        /\ bk.this.value <= bk.next.value

\* the same, below the count at which the expression overflows
C8_HoldsBelowOverflow == bk.n < FLOAT_MAX_EXP => C8_BackoffMonotoneCapped

Visited ==
    CASE lpc = "sync_status"     -> DOMAIN devices_rec \ {todo[i] : i \in DOMAIN todo}
      [] lpc = "sync_attendance" -> DOMAIN devices_rec
                                        \ {todo[i] : i \in 2..Len(todo)}
      [] lpc \in {"sync_stale", "finish"} -> DOMAIN devices_rec
      [] OTHER -> {}

\* C11: in every cycle, for every record the store returned, the loop hands
\* an updateDeviceStatus call to the sync client if and only if the status
\* derived in the cycle differs from the status in the record; a record whose
\* status is unchanged causes no call, in this cycle or the next.  (The sync
\* client dispatches the call unless the circuit is open, C1.)
C11_UpdateIffStatusChanged ==
    /\ \A m \in Visited :
           Req("updateDeviceStatus", m) \in asked
               <=> DerivedStatus(present_set, m) # devices_rec[m].status
    /\ \A r \in asked : r.kind = "updateDeviceStatus" => r.mac \in Visited
    /\ sent \subseteq asked

C11_Witness ==
    /\ lpc = "finish"
    /\ \E m \in Visited : Req("updateDeviceStatus", m) \in sent
    /\ \E m \in Visited : Req("updateDeviceStatus", m) \notin asked

\* ------------------------------------------------------------------------
\* Properties of the stale-pairing cleanup (checked under SpecLoop)
\* ------------------------------------------------------------------------
\* C12: the stale-pairing cleanup calls remove_device for no address that is
\* connected in the snapshot it works from, with or without a store record.
C12_CleanupSparesConnected == removed \cap snapshot.connected = {}

C12_Witness ==
    /\ lpc = "finish"
    /\ devices # {}
    /\ \E a \in snapshot.connected \cap snapshot.paired :
           a \notin devices /\ a \notin store

\* the connected addresses the loop over connected_set has dealt with so far
\* in this cycle
PassedConnected ==
    CASE lpc = "sync_register" -> snapshot.connected \ {todo[i] : i \in DOMAIN todo}
      [] lpc \in {"sync_status", "sync_attendance", "sync_stale", "finish"}
             -> snapshot.connected
      [] OTHER -> {}

\* the display name the snapshot holds for an address: its alias, else its
\* name, else none (sent as the empty string)
DisplayName(a) ==
    IF a \in snapshot.alias THEN <<"alias", a>>
    ELSE IF a \in snapshot.name THEN <<"name", a>>
    ELSE <<>>

\* C13: in every cycle, for each address connected in the cycle's snapshot
\* for which the store returned no record, the loop hands a
\* registerPendingDevice call with the address's snapshot display name to the
\* sync client in that same cycle, whether or not the address was seen before;
\* and for a connected address with a retrieved record it hands none.
C13_ConnectedRegisteredAtOnce ==
    /\ \A a \in PassedConnected :
           a \notin devices
               <=> NamedReq("registerPendingDevice", a, DisplayName(a)) \in asked
    /\ \A r \in asked :
           r.kind = "registerPendingDevice"
               => r.mac \in PassedConnected /\ r.name = DisplayName(r.mac)
    /\ regConnected = {r.mac : r \in {q \in asked : q.kind = "registerPendingDevice"}}

C13_Witness ==
    /\ cycle_now = WallStart
    /\ \E a \in PassedConnected :
           /\ a \notin store
           /\ a \in snapshot.alias
           /\ NamedReq("registerPendingDevice", a, DisplayName(a)) \in sent
    /\ \E a \in PassedConnected : a \in devices

\* ------------------------------------------------------------------------
\* Probe scheduler claims (SpecProbe)
\* ------------------------------------------------------------------------
\* the addresses a connect was started on in the running probe_devices call
ProbeAttempted == {probe.attempts[k].mac : k \in DOMAIN probe.attempts}

\* the result map of a finished call: keys are candidates (as the link layer
\* spells them) that are not connected, they are the attempted addresses, and
\* each value is the verdict of that address's connect
ResultMapOfAttempts ==
    /\ DOMAIN probe.results \subseteq
           UpperSet(probe.candidates) \ UpperSet(probe.connected)
    /\ DOMAIN probe.results = ProbeAttempted
    /\ \A k \in DOMAIN probe.attempts :
           probe.results[probe.attempts[k].mac]
               = (probe.attempts[k].outcome = "verified")

PlannedLast(m) == MapGet(probe.last0, m, 0)

ProbeKept == {probe.ordered[j] : j \in DOMAIN probe.ordered}

\* C15: within one probe_devices call, whatever MAX_RECONNECT_PER_CYCLE is,
\* addresses are attempted in non-decreasing order of their last attempt
\* (never attempted, 0, first), and the addresses the cap keeps are those with
\* the oldest last attempts.
C15_OldestFirst ==
    /\ \A j, k \in DOMAIN probe.attempts :
           j < k => PlannedLast(probe.attempts[j].mac)
                        <= PlannedLast(probe.attempts[k].mac)
    /\ \A m \in ProbeKept, d \in probe.planned \ ProbeKept :
           PlannedLast(m) <= PlannedLast(d)

\* C15 where the cap is on: the order and the cut are as stated
C15_OldestFirstUnderCap == MAX_RECONNECT_PER_CYCLE > 0 => C15_OldestFirst

\* C16: no connect starts on an address whose previous connect began less
\* than RECONNECT_COOLDOWN ago or whose next-allowed time is still ahead; the
\* attempt's timestamp is in _last_connection_attempts while the connect runs;
\* an address the gate skipped has no entry in the result map.
C16_GateKeepsSpacing ==
    /\ \A k \in DOMAIN probe.attempts :
           LET a == probe.attempts[k]
           IN  /\ a.previous # 0 => a.at - a.previous >= RECONNECT_COOLDOWN
               /\ a.next_allowed # 0 => a.at >= a.next_allowed
    /\ probe.pc = "connecting" =>
           MapGet(last_connection_attempts, probe.ordered[probe.i], 0)
               = probe.attempts[Len(probe.attempts)].at
    /\ probe.skipped \cap DOMAIN probe.results = {}

\* a call that attempted an address that had been attempted before, and
\* skipped another whose cooldown was over but whose backoff was not
C16_Witness ==
    /\ probe.pc = "done"
    /\ \E k \in DOMAIN probe.attempts : probe.attempts[k].previous # 0
    /\ \E m \in probe.skipped :
           probe.start - MapGet(last_connection_attempts, m, 0) >= RECONNECT_COOLDOWN

\* C17: in a probe_devices call with a time budget no connect starts once the
\* time since the call began has reached the budget: the loop stops at that
\* candidate and leaves it and all later ones unattempted; a candidate the
\* gate skips does not end the loop.
C17_BudgetStopsLoop ==
    probe.budget # NoBudget =>
        /\ \A k \in DOMAIN probe.attempts :
               probe.attempts[k].at - probe.start < probe.budget
        /\ probe.stopped =>
               /\ probe.stoppedAt - probe.start >= probe.budget
               /\ probe.i <= Len(probe.ordered)
               /\ \A j \in probe.i..Len(probe.ordered) :
                      probe.ordered[j] \notin ProbeAttempted \cup probe.skipped
        /\ probe.pc = "done" /\ ~probe.stopped =>
               ProbeKept = ProbeAttempted \cup probe.skipped

\* a call that the budget stopped at its second candidate, after an attempt
\* that took the whole budget
C17_Witness ==
    /\ probe.pc = "done"
    /\ probe.stopped
    /\ probe.budget = PROBE_TIME_BUDGET_SECONDS
    /\ ProbeAttempted # {}
    /\ ProbeKept \ ProbeAttempted # {}

\* ------------------------------------------------------------------------
\* Connection controller: the caller and the transport lock (SpecConnect)
\* ------------------------------------------------------------------------
\* the steps connect_device and disconnect_device take in the caller's thread
CallerStep == PrimaryStep \/ FallbackStep \/ VerifyStep \/ SnapshotStep

\* C18: connect_device and disconnect_device always return: at every point
\* of a running call the caller can take its next step without the worker of
\* this or an earlier call completing, so that a worker that never completes
\* holds the caller up for no longer than the hard timeout.
C18_CallerNeverWaitsOnWorker == pc # "idle" => ENABLED CallerStep

\* C18 for the calls whose workers all completed: the caller is never held up
C18_ProceedsWithFreeLock == (pc # "idle" /\ ~lockHeld) => ENABLED CallerStep

\* C19: link-transport access is serialized behind _dbus_operation_lock: no
\* connect, disconnect, trust or property read of a call reaches the transport
\* while a worker, abandoned ones included, is inside a primitive.
C19_TransportSerialized == conn.overlap = {}

\* C19 for the primitives and reads that do take the lock: a live read of the
\* Connected property never coincides with a worker inside a primitive
C19_ReadsSerialized == [][conn'.reads # conn.reads => ~lockHeld]_vars

\* C20: connect_device and disconnect_device end in a boolean, never in an
\* exception, whatever fails: the primary primitive, the command-line fallback
\* or the property reads.
C20_NeverRaises == pc = "idle" /\ conn.op # "none" => Returned(conn)

\* C20 for the calls that neither overflow the backoff nor fail to start the
\* fallback's subprocess
C20_OtherFailuresReturn ==
    (pc = "idle" /\ conn.op # "none" /\ conn.bt # "os error"
       /\ conn.failuresBefore < FLOAT_MAX_EXP) => Returned(conn)

\* ------------------------------------------------------------------------
\* Properties of the main loop (checked under SpecRun)
\* ------------------------------------------------------------------------
\* C21: an exception raised inside a cycle is caught at the cycle boundary
\* and does not end the loop: the loop is only ever left by the operator's
\* stop, and after a cycle that raised the loop is back at the top of the
\* while loop one polling interval after the exception, able to begin the
\* next cycle.
C21_CycleErrorsContained ==
    /\ run.pc = "stopped" => run.stoppedBy = "KeyboardInterrupt"
    /\ run.error = "Exception" /\ run.stoppedBy = "none" =>
           run.pc \in {"sleep", "loop"}
    /\ run.error = "Exception" /\ run.pc = "sleep" => clock = run.caughtAt
    /\ run.error = "Exception" /\ run.pc = "loop" =>
           /\ clock = run.caughtAt + POLLING_INTERVAL
           /\ run.started < MaxRunCycles => ENABLED RunEnter

\* a cycle is running although an earlier one raised in mid-cycle
C21_Witness ==
    /\ run.pc = "cycle"
    /\ run.failed > 0
    /\ run.caughtAt + POLLING_INTERVAL <= clock
    /\ run.stoppedBy = "none"

\* ------------------------------------------------------------------------
\* Properties of the administrative interface (checked under SpecForget)
\* ------------------------------------------------------------------------
Forgot == forget.mac # None

\* C22: forget-device on an address BlueZ does not know returns failure and
\* leaves BlueZ's devices as they were; a request changes nothing but the
\* named device; and a second request for an address the first one removed
\* returns failure and leaves the devices as the first request left them.
C22_ForgetIdempotent ==
    Forgot =>
        /\ Upper(forget.mac) \notin forget.before =>
               ~forget.success /\ forget.http = 500 /\ forget.after = forget.before
        /\ forget.after \in {forget.before, forget.before \ {Upper(forget.mac)}}
        /\ forget.success <=> forget.after # forget.before
        /\ (/\ forget.prev.mac # None
            /\ Upper(forget.prev.mac) = Upper(forget.mac)
            /\ forget.prev.success
            /\ forget.before = forget.prev.after) =>
               ~forget.success /\ forget.after = forget.prev.after

\* the second of two requests for a device the first one removed
C22_Witness ==
    /\ Forgot
    /\ forget.prev.mac = forget.mac
    /\ forget.prev.success
    /\ forget.before = forget.prev.after
    /\ forget.before # {}
    /\ ~forget.success

\* ------------------------------------------------------------------------
\* Properties of the registration retry (checked under SpecLoop)
\* ------------------------------------------------------------------------
\* an address whose latest registration returned False is in range, not
\* connected, carries the registration signals, and its first observation is
\* at least the debounce window old
QualifiesInRange(a) ==
    /\ a \in Examined(snapshot, cycle_now, last_rssi_refresh_time)
    /\ HasRegistrationSignals(snapshot, a)
    /\ a \in DOMAIN device_first_seen
    /\ cycle_now - device_first_seen[a] >= FIRST_SEEN_DEBOUNCE_SECONDS

\* C23: an address whose registration returned False (it is in
\* failed_registrations) is registered again by the next cycle that finds it
\* connected, or in range with its debounce satisfied, and without a record;
\* and a registration that returns False keeps the address's first-seen time,
\* so that the retry waits for no new debounce.
C23_FailedRegistrationRetried ==
    [][/\ lpc = "register_connected" /\ lpc' # lpc =>
              \A a \in failed_registrations :
                  a \in snapshot.connected /\ a \notin devices => a \in regConnected'
       /\ lpc = "register_in_range" /\ lpc' # lpc =>
              /\ \A a \in failed_registrations :
                     QualifiesInRange(a) /\ a \notin devices => a \in regInRange'
              /\ \A a \in regInRange' \cap failed_registrations' :
                     /\ a \in DOMAIN device_first_seen'
                     /\ a \in DOMAIN device_first_seen
                     /\ device_first_seen'[a] = device_first_seen[a]]_vars

\* the in-range pass is about to run on an address that failed in an earlier
\* cycle and still qualifies
C23_Witness ==
    /\ lpc = "register_in_range"
    /\ \E a \in failed_registrations \ devices :
        QualifiesInRange(a) /\ cycle_now - device_first_seen[a] >= 2 * POLLING_INTERVAL

\* ------------------------------------------------------------------------
\* Properties of the attendance log (checked under SpecSync)
\* ------------------------------------------------------------------------
\* C24: an attendance entry whose log_attendance call returned False is
\* retried in the next cycle: at the end of a cycle that retrieved the
\* device's record, no entry is left unlogged from an earlier cycle.
C24_AttendanceRetried ==
    lpc = "finish" =>
        \A m \in DOMAIN unlogged \cap DOMAIN devices_rec : unlogged[m] = cycle_now

\* the loop over the devices is over
StatusLoopDone == lpc \in {"sync_stale", "finish"}

\* C25: in a cycle, logAttendance is handed to the sync client for an
\* address exactly when that cycle's updateDeviceStatus call for it returned
\* something other than None and the retrieved record is not pending.
C25_AttendanceFollowsUpdate ==
    StatusLoopDone =>
        \A m \in SyncAddr :
            Req("logAttendance", m) \in asked <=>
                /\ m \in DOMAIN devices_rec
                /\ Req("updateDeviceStatus", m) \in replied
                /\ ~devices_rec[m].pending

\* a registered device was moved to present and logged, and a pending one
\* was updated without an attendance entry
C25_Witness ==
    /\ lpc = "finish"
    /\ \E m \in present_set :
        /\ Req("updateDeviceStatus", m) \in replied
        /\ Req("logAttendance", m) \in asked
    /\ \E m \in DOMAIN devices_rec :
        /\ devices_rec[m].pending
        /\ Req("updateDeviceStatus", m) \in replied
        /\ Req("logAttendance", m) \notin asked

\* ------------------------------------------------------------------------
\* Properties of the presence pass (checked under SpecPresence)
\* ------------------------------------------------------------------------
PresenceDone == lpc \in {"sync_register", "finish"}

\* in range as the specification words it
InRangeAsStated(m) ==
    \/ m \in snapshot.connected
    \/ /\ m \in snapshot.signal
       /\ cycle_now - last_rssi_refresh_time <= RSSI_FRESHNESS_SECONDS

\* evidence of presence other than the snapshot: the address was handed to
\* the full probe, or its record reads present (newly registered grace)
OtherEvidence(m) ==
    \/ m \in presenceObs.candidates
    \/ m \in DOMAIN devices_rec /\ devices_rec[m].status = "present"

\* C26: a device is in range exactly when the snapshot shows it connected,
\* or shows a signal reading while the last completed discovery refresh is
\* within RSSI_FRESHNESS_SECONDS of the cycle's time; an in-range device has
\* its last-seen time set to the cycle's time, and a device with nothing but
\* a stale reading has not.
C26_InRangeNeedsFreshSignal ==
    PresenceDone =>
        /\ get_devices_in_range(snapshot, cycle_now, last_rssi_refresh_time)
               = {m \in SyncAddr : InRangeAsStated(m)}
        /\ \A m \in SyncAddr :
               /\ InRangeAsStated(m) =>
                      MapGet(recently_seen_devices, m, 0) = cycle_now
               /\ ~InRangeAsStated(m) /\ ~OtherEvidence(m) =>
                      MapGet(recently_seen_devices, m, 0) # cycle_now

\* a device whose reading is stale (a refresh completed, more than the
\* freshness window ago) was passed over, next to a connected one
C26_Witness ==
    /\ lpc = "sync_register"
    /\ last_rssi_refresh_time > 0
    /\ cycle_now - last_rssi_refresh_time > RSSI_FRESHNESS_SECONDS
    /\ \E m \in snapshot.signal :
        ~OtherEvidence(m) /\ MapGet(recently_seen_devices, m, 0) # cycle_now
    /\ snapshot.connected # {}

\* C27: after the pruning of a cycle every entry of recently_seen_devices is
\* at most PRESENT_TTL_SECONDS older than the cycle's time, and present_set
\* is the set of the map's keys.
C27_PrunedToPresenceSet ==
    PresenceDone =>
        /\ present_set = DOMAIN recently_seen_devices
        /\ \A a \in DOMAIN recently_seen_devices :
               cycle_now - recently_seen_devices[a] <= PRESENT_TTL_SECONDS

\* the pass pruned an entry and kept one from an earlier cycle
C27_Witness ==
    /\ lpc = "sync_register"
    /\ presenceObs.pruned # {}
    /\ \E a \in DOMAIN recently_seen_devices : recently_seen_devices[a] < cycle_now

\* C28: the loop calls probe_devices only when the previous call is at
\* least FULL_PROBE_INTERVAL_SECONDS back, and only with addresses that have
\* a non-pending record, are not in range and were last seen more than
\* PRESENT_TTL_SECONDS ago; last_full_probe_time moves with a call and only
\* with a call.
C28_ProbeOnlyStaleRegistered ==
    [][lpc = "presence" /\ lpc' # lpc =>
           /\ presenceObs'.called =>
                  /\ cycle_now - last_full_probe_time >= FULL_PROBE_INTERVAL_SECONDS
                  /\ last_full_probe_time' = cycle_now
                  /\ \A m \in presenceObs'.candidates :
                         /\ m \in DOMAIN devices_rec
                         /\ ~devices_rec[m].pending
                         /\ ~InRangeAsStated(m)
                         /\ cycle_now - MapGet(recently_seen_devices, m, 0)
                                > PRESENT_TTL_SECONDS
           /\ ~presenceObs'.called =>
                  /\ presenceObs'.candidates = {}
                  /\ last_full_probe_time' = last_full_probe_time]_vars

\* a probe one full interval after the previous one, sparing a registered
\* device that is in range or was seen within the TTL
C28_Witness ==
    /\ lpc = "sync_register"
    /\ presenceObs.called
    /\ cycle_now - presenceObs.previous = FULL_PROBE_INTERVAL_SECONDS
    /\ \E m \in DOMAIN devices_rec \ presenceObs.candidates : ~devices_rec[m].pending

\* ------------------------------------------------------------------------
\* Properties of the expiry cleanup (checked under SpecExpiry)
\* ------------------------------------------------------------------------
\* the calls issued for m: a disconnect and, right after it, a removal
DisconnectThenRemove(m) ==
    \E i \in 1..(Len(expiry.ops) - 1) :
        expiry.ops[i] = <<"disconnect", m>> /\ expiry.ops[i + 1] = <<"remove", m>>

\* C29: when cleanup_expired_devices has run, every address the store
\* returned as purged was disconnected and then removed at the link layer,
\* whatever the disconnect came to; and a store call that returned None is
\* followed by no link-layer call.
C29_PurgedDisconnectedAndRemoved ==
    /\ expiry.result = "True" =>
           \A i \in DOMAIN expiry.deleted : DisconnectThenRemove(expiry.deleted[i])
    /\ expiry.result = "False" => expiry.ops = <<>>

\* the same, for the purged addresses whose disconnect_device returned
C29_RemovedWhenDisconnectReturns ==
    /\ expiry.result = "True" =>
           \A i \in DOMAIN expiry.deleted :
               expiry.deleted[i] \notin expiry.raised =>
                   DisconnectThenRemove(expiry.deleted[i])
    /\ expiry.result = "False" => expiry.ops = <<>>

\* ------------------------------------------------------------------------
\* Properties of the stale-pairing cleanup (checked under SpecLoop)
\* ------------------------------------------------------------------------
\* the cycle knows the store's set: it retrieved records, or the store holds
\* none
KnownSetRetrieved == devices # {} \/ store = {}

\* C30: at the end of a cycle that knows the store's set, remove_device was
\* called for every address of the snapshot that is paired, not connected
\* and not in that set, be the set empty or not.
C30_UnpairsEveryStale ==
    lpc = "finish" /\ KnownSetRetrieved =>
        stale_devices(snapshot, devices) \subseteq removed

\* the same for a cycle that retrieved at least one record
C30_UnpairsWhenKnownNonEmpty ==
    lpc = "finish" /\ devices # {} => removed = stale_devices(snapshot, devices)



\* ------------------------------------------------------------------------
\* C31: connect_device called for an address whose link handle cannot be
\* resolved from the snapshot returns false at once: the step that starts
\* the call also ends it, with no primary primitive, no command-line
\* fallback and no verification read made, and leaves the failure counts and
\* the next-allowed-attempt times as they were.
C31_UnresolvedFailsFast ==
    [][(connCalls' # connCalls /\ conn'.op = Connect /\ ~conn'.resolved)
        => /\ pc' = "idle"
           /\ conn'.result = "false"
           /\ conn'.dbus = "none"
           /\ conn'.bt = "none"
           /\ conn'.reads = <<>>
           /\ conn'.fresh = "unread"
           /\ clock' = clock
           /\ UNCHANGED <<failed_connection_attempts,
                          next_probe_allowed_at>>]_vars

\* an unresolved connect has returned for an address that has failures on
\* record, and the record is what it was
C31_Witness ==
    /\ pc = "idle"
    /\ conn.op = Connect
    /\ ~conn.resolved
    /\ conn.result = "false"
    /\ conn.failuresBefore > 0
    /\ MapGet(failed_connection_attempts, conn.mac, 0) = conn.failuresBefore

\* the primary primitive of the call ended in an error or the hard timeout
PrimaryFailed(c) == c.dbus \in {"error", "hard timeout"}

\* the call has gone past both connect paths: it is verifying, or it is over
\* after its link handle was resolved
PastBothPaths ==
    pc \in {"verify", "snapshot"} \/ (pc = "idle" /\ conn.resolved)

\* the order of the paths: the fallback is invoked only after a failed
\* primary, every call past both paths invoked it if the primary failed, and
\* no verification read or snapshot check is made before both
FallbackIffPrimaryFailed ==
    /\ conn.bt # "none" => PrimaryFailed(conn)
    /\ PastBothPaths =>
           /\ conn.dbus # "none"
           /\ PrimaryFailed(conn) => conn.bt # "none"
    /\ (conn.reads # <<>> \/ conn.fresh # "unread") => PastBothPaths

\* C32: the command-line fallback is invoked if and only if the primary path
\* failed (error or hard timeout), always after it, and the verification runs
\* after both, whichever path reported success: a call that is over after its
\* link handle was resolved has read the connected property.
C32_VerifiedAfterBothPaths ==
    /\ FallbackIffPrimaryFailed
    /\ (pc = "idle" /\ conn.resolved) => conn.reads # <<>>

\* C32 for the calls whose fallback could be started
C32_VerifiedUnlessFallbackRaises ==
    /\ FallbackIffPrimaryFailed
    /\ (pc = "idle" /\ conn.resolved /\ conn.bt # "os error")
           => conn.reads # <<>>

\* an abandoned worker's primitive returns: the step that releases the lock
LateCompletion == lockHeld /\ ~lockHeld'

\* C33 for the maps and the running call: the late completion of an abandoned
\* worker changes no failure count, no next-allowed-attempt time, no
\* last-attempt timestamp and nothing of the record of the call in progress
C33_LateWorkerWritesNothing ==
    [][LateCompletion =>
           UNCHANGED <<failed_connection_attempts, next_probe_allowed_at,
                       last_connection_attempts, conn, pc, connCalls>>]_vars

\* C33: a worker abandoned after a hard timeout that completes later changes
\* no shared state: the failure counts, the next-allowed-attempt times and the
\* last-attempt timestamps stay as they are, and an attempt made afterwards
\* returns what it would have returned had the worker never completed: its
\* primary primitive and its verification reads can do after the completion
\* exactly what they could do before it.
C33_LateWorkerWithoutEffect ==
    [][LateCompletion =>
           /\ UNCHANGED <<failed_connection_attempts, next_probe_allowed_at,
                          last_connection_attempts>>
           /\ (ENABLED Primary("ok"))' = ENABLED Primary("ok")
           /\ (ENABLED VerifyStep)' = ENABLED VerifyStep]_vars

\* a read of the connected property made by the verification of the call
\* failed
ReadFailed(c) == \E i \in 1..Len(c.reads) : c.reads[i] = Unknown

\* C34: during the verification in connect_device a failed read of the
\* connected property increments the device's failure counter before the
\* snapshot check is consulted: once a read has failed, the counter is above
\* what it was when the call began, while the call is still verifying.
C34_ReadFailureCounted ==
    (pc \in {"verify", "snapshot"} /\ conn.op = Connect /\ ReadFailed(conn))
        => MapGet(failed_connection_attempts, conn.mac, 0) > conn.failuresBefore

\* C34 as the code has it: a failed read counts nothing.  While a call is
\* verifying, whatever its reads returned, the failure counters are what they
\* were when it began; a counter goes up only in the step that ends a connect
\* call after the snapshot check, the last of the verification, did not show
\* the device connected, and then by one.
C34_CountedAfterSnapshotCheck ==
    [][/\ pc' \in {"verify", "snapshot"} =>
              MapGet(failed_connection_attempts', conn'.mac, 0)
                  = conn'.failuresBefore
       /\ \A a \in Addr :
              MapGet(failed_connection_attempts', a, 0)
                  > MapGet(failed_connection_attempts, a, 0)
              => /\ pc = "snapshot" /\ pc' = "idle"
                 /\ conn.op = Connect /\ a = conn.mac
                 /\ Len(conn'.reads) = 3
                 /\ conn'.fresh = "false"
                 /\ MapGet(failed_connection_attempts', a, 0)
                        = conn.failuresBefore + 1]_vars

\* a connect whose three reads all failed and whose snapshot could not be
\* fetched has returned false for a device that is connected, one failure
\* counted
C34_Witness ==
    /\ pc = "idle"
    /\ conn.op = Connect
    /\ conn.result = "false"
    /\ conn.reads = <<Unknown, Unknown, Unknown>>
    /\ conn.fresh = "false"
    /\ conn.liveAtReturn
    /\ MapGet(failed_connection_attempts, conn.mac, 0) = conn.failuresBefore + 1

\* ------------------------------------------------------------------------
\* C35: every address whose probe returned true in a cycle has its last-seen
\* time set to that cycle's now, is in the cycle's presence set and has
\* "present" for its derived status; the probe's disconnect after the
\* verified connect changes nothing of it, the pass reading only the probe's
\* result.  When the status loop comes to such an address, the status it
\* writes to the store and keeps as the previous status is "present".
C35_ProbedIsPresent ==
    [][\A m \in presenceObs'.reconnected :
           /\ MapGet(recently_seen_devices', m, 0) = cycle_now'
           /\ m \in present_set'
           /\ DerivedStatus(present_set', m) = "present"
           /\ (lpc = "sync_status" /\ todo # <<>> /\ Head(todo) = m) =>
                  /\ (m \in DOMAIN store_rec' /\ store_rec' # store_rec)
                         => store_rec'[m].status = "present"
                  /\ device_previous_status' # device_previous_status
                         => device_previous_status'[m] = "present"]_vars

\* a device that had no last-seen time and was absent in the store answered
\* the probe, and the store has been told that it is present
C35_Witness ==
    \E m \in presenceObs.reconnected :
        /\ m \in present_set
        /\ recently_seen_devices[m] = cycle_now
        /\ devices_rec[m].status = "absent"
        /\ m \in DOMAIN store_rec
        /\ store_rec[m].status = "present"
        /\ Req("updateDeviceStatus", m) \in replied

\* ------------------------------------------------------------------------
\* C36: the stale-pairing cleanup never removes an address that has a store
\* record at the moment the cleanup runs; in particular an address registered
\* through the in-range path of a cycle is not unpaired by the cleanup of that
\* same cycle.
C36_CleanupSparesStored == removed \cap store = {}

\* C36 for the records that were in the store when the cycle queried it: the
\* only addresses with a record that the cleanup removes are the ones the
\* in-range path registered in this cycle
C36_CleanupSparesRetrieved ==
    /\ removed \cap devices = {}
    /\ removed \cap store \subseteq regInRange

\* the registerPendingDevice requests dispatched to the store in this step
NewlyRegistering ==
    {r \in sent' \ sent : r.kind = "registerPendingDevice"}

\* C37: registerPendingDevice is never called for an address that already has
\* a record in the store, in any cycle, the cycles in which the known-device
\* query returned None (read as an empty list) included.
C37_NoRegistrationOfStored ==
    [][\A r \in NewlyRegistering : r.mac \notin store]_vars

\* C37 for the cycles whose known-device query was answered, and for the
\* records the cycle retrieved
C37_NoRegistrationOfRetrieved ==
    [][\A r \in NewlyRegistering :
           /\ r.mac \notin devices
           /\ Req("getDevices", None) \in replied => r.mac \notin store]_vars

\* ------------------------------------------------------------------------
\* C38: the consecutive-timeout counter is not reset when the open window
\* expires.  Whenever the circuit is open the counter is at least the
\* threshold; a counter at or above the threshold comes below it only through
\* a dispatched call that completes without timeout; and a call dispatched
\* after the window has expired that times out, the counter still being at
\* the threshold, re-opens the circuit with that single timeout.
C38_CounterOutlivesWindow ==
    [][/\ CircuitOpenAt(clock', convex_circuit_open_until')
              => convex_consecutive_timeouts' >= MAX_CONVEX_CONSECUTIVE_TIMEOUTS
       /\ (/\ convex_consecutive_timeouts >= MAX_CONVEX_CONSECUTIVE_TIMEOUTS
           /\ convex_consecutive_timeouts' < MAX_CONVEX_CONSECUTIVE_TIMEOUTS)
              => /\ call'.at = clock
                 /\ call'.dispatched
                 /\ call'.outcome \in {"ok", "error"}
       /\ (/\ convex_consecutive_timeouts >= MAX_CONVEX_CONSECUTIVE_TIMEOUTS
           /\ call'.at = clock
           /\ call'.outcome = "timeout")
              => /\ call'.dispatched
                 /\ convex_circuit_open_until'
                        = call'.end + CONVEX_CIRCUIT_OPEN_SECONDS
                 /\ CircuitOpenAt(clock', convex_circuit_open_until')]_vars

\* the first call after an expired window timed out and the circuit is open
\* again, the counter one above the threshold
C38_Witness ==
    /\ call.dispatched
    /\ call.outcome = "timeout"
    /\ call.openBefore > 0
    /\ call.at >= call.openBefore
    /\ call.countBefore = MAX_CONVEX_CONSECUTIVE_TIMEOUTS
    /\ prevCall.outcome = "skipped"
    /\ convex_consecutive_timeouts = MAX_CONVEX_CONSECUTIVE_TIMEOUTS + 1
    /\ CircuitOpenAt(clock, convex_circuit_open_until)

\* ------------------------------------------------------------------------
\* Properties of repeated probing (checked under SpecStarve)
\* ------------------------------------------------------------------------
\* a connect on the address has been started since the repeated calls began
AttemptedSinceStart(a) == MapGet(last_connection_attempts, a, 0) >= WallStart

\* C39: no probe candidate is starved: with a fixed candidate set larger than
\* the (positive) per-cycle maximum and every connect failing, repeated
\* probe_devices calls over advancing time eventually attempt every candidate,
\* whatever cooldown and backoff the others start in.
C39_NoCandidateStarved == <>(\A a \in ProbeAddr : AttemptedSinceStart(a))

\* A2 was kept waiting while A1, the oldest attempt, sat in its capped
\* backoff; A1 has since failed for the eighth time and A2 been attempted
C39_Witness ==
    /\ \A a \in ProbeAddr : AttemptedSinceStart(a)
    /\ MapGet(failed_connection_attempts, "A1", 0) = 8
    /\ last_connection_attempts["A1"]
           >= WallStart - RECONNECT_COOLDOWN + PROBE_BACKOFF_MAX_SECONDS
    /\ last_connection_attempts["A2"] > last_connection_attempts["A1"]

\* ------------------------------------------------------------------------
\* Properties of the loop once the store answers (checked under SpecConverge)
\* ------------------------------------------------------------------------
\* the status the loop derives for an address in every cycle of the run
SteadyStatus(m) ==
    IF m \in ConvergeSnapshot.connected THEN "present" ELSE "absent"

\* every record of the store holds the derived status
StoreAgrees == \A m \in DOMAIN store_rec : store_rec[m].status = SteadyStatus(m)

\* the running cycle has made no updateDeviceStatus call
NoUpdateAsked == \A r \in asked : r.kind # "updateDeviceStatus"

\* C40: the store's status converges to the derived status: once the store
\* answers every call and the derived presence of the known devices stays as
\* it is, from some point on every record holds the derived status and the
\* cycles make no updateDeviceStatus call, also when an update of an earlier
\* cycle that timed out at the client is applied by the store late.
C40_StatusConverges == <>[](StoreAgrees /\ NoUpdateAsked)

\* the last cycle of a run is over without an update call, both records
\* agreeing with the derived status, after the store applied late an update
\* to the status that is not the derived one
C40_Witness ==
    /\ lpc = "finish"
    /\ clock + POLLING_INTERVAL > WallStart + MaxConvergeSpan
    /\ DOMAIN store_rec = SyncAddr
    /\ StoreAgrees
    /\ NoUpdateAsked
    /\ \E u \in late.landed : u.status # SteadyStatus(u.mac)

====
